---- MODULE Spec2Model ----
(***************************************************************************)
(* Verification model of the furnace-brain browser front end.              *)
(*                                                                         *)
(*  Part I  : the state poller and diff applier of main.js                 *)
(*            (src/unnamed/part_005, lines 1-150).                         *)
(*  Part II : the schema-driven configuration engine                       *)
(*            (src/frontend/js/settings-config.js).                        *)
(*  Part III: the other pages: the interval poller of panel-main.js, the   *)
(*            manual-control page (script.js), the setpoint modal          *)
(*            (temp-setpoint-modal.js) and the menu (mode-control.js).     *)
(*                                                                         *)
(* One UI event loop: every action below is one browser task (an event     *)
(* handler, a timer callback, a network completion, an animation frame)    *)
(* run to completion together with the promise continuations (microtasks)  *)
(* it makes runnable.                                                      *)
(*                                                                         *)
(* Numbers are fixed point: every numeric quantity is an integer count of  *)
(* hundredths (58.34 is 5834).  Inputs never sit on a rounding tie, so     *)
(* Math.round is floor(x + 1/2) exactly.  A nullable value is a tuple:     *)
(* <<>> is null, <<v>> is the value v.                                     *)
(***************************************************************************)
EXTENDS Integers, Sequences, FiniteSets, TLC

VARIABLES
    \* ---- part_005: poller ------------------------------------------------
    hidden,         \* document.hidden
    loaded,         \* DOMContentLoaded has fired
    timer,          \* `let timer`: 0 is null, otherwise a timer id
    timers,         \* the browser's pending setTimeout(loop, ms) callbacks
    inFlight,       \* `let inFlight`
    controller,     \* `let controller`: 0 is null, otherwise the request it aborts
    pollerRunning,  \* window.__pollerRunning
    net,            \* outstanding GET /state/current: request id -> response
    \* ---- part_005: diff applier ------------------------------------------
    raf,            \* `let raf`: TRUE when it holds a frame handle
    frames,         \* number of pending requestAnimationFrame callbacks
    queued,         \* `let queued`
    prev,           \* `let prev`
    status,         \* text of the status line (FurnaceUI.ui.setStatus)
    lastWrites,     \* renderer setters called by the task that just ran
    displayed,      \* setter -> the value it was last called with by the poll
                    \* path (history; a setter never called is absent)
    lastApplied,    \* the state last handed to applyState (history)
    reapplied,      \* the last applyState got the same state as the one before
    overwritten,    \* the state received last replaced a queued state whose
                    \* frame had not fired (history)
    hidInFlight,    \* the page was hidden while a poll was in flight and has
                    \* not become visible since (history)
    \* ---- settings-config.js ---------------------------------------------
    cfgPc,          \* where initConfigUI stands: "boot", "modules" (awaiting
                    \* GET /modules), "loading", "done", "failed" (it rejected)
    modules,        \* the module list received (ids, in order)
    loadIdx,        \* index in modules of the module being loaded
    loadGot,        \* what Promise.all of the load has so far: schema, values
    configState,    \* `const configState`: module id -> Draft (key -> value)
    schemaCache,    \* `const schemaCache`: module id -> schema
    panel,          \* module id -> content of its tab panel
    activeTab,      \* module id of the .active tab button, "" when there is none
    activeButtons,  \* module ids of the tab buttons that have the class "active"
    activePanels,   \* module ids of the tab panels that have the class "active"
    saveBtn,        \* the global save button exists
    saveDisabled,   \* saveBtn.disabled
    putNet,         \* outstanding PUT /values/{module}: id -> request
    cfgStatus,      \* the status line written by setStatus
    pressed,        \* the button the task that just ran handled: -1 for
                    \* minus/previous, 1 for plus/next, 0 for none (history)
    \* ---- panel-main.js ---------------------------------------------------
    pmLoaded,       \* DOMContentLoaded has fired (the interval is set)
    pmIssued,       \* number of GET /state/current issued so far; a request
                    \* is known by its issue number
    pmNet,          \* issue numbers of the outstanding requests
    pmApplied,      \* issue number of the request whose response
                    \* updateUIFromState got last, 0 when none (history)
    pmShown,        \* what the setters were last called with (None: never)
    pmStatus,       \* text of the status line
    \* ---- script.js: the manual-control page -------------------------------
    manLoaded,      \* DOMContentLoaded has fired on the page now loaded
    manBusy,        \* `let busy`
    manSwitch,      \* modeSwitch.checked
    manEnabled,     \* the fieldset of the output controls is not disabled
    manFan,         \* fanSlider.value, as an integer
    manToggles,     \* checked state of the five output checkboxes
    manStorage,     \* localStorage["boiler:lastNonManualMode"] (None: absent)
    manNet,         \* outstanding requests: id -> the operation that awaits
                    \* it (op), the request (req) and what it carries (body)
    manStatus,      \* #status-text, written by setStatus and by the menu
                    \* buttons' click handlers
    manEvent,       \* the event of the manual controls the task that just
                    \* ran handled, "" when it handled none (history)
    \* ---- temp-setpoint-modal.js -----------------------------------------
    mdOpen,         \* the modal is shown (it has not the class "hidden")
    mdActive,       \* `let activeKey` is not null
    mdCurrent,      \* `let current` (None: null)
    mdSaving,       \* `let isSaving`
    mdSaveDisabled, \* btnSave.disabled
    mdText,         \* tempValueEl.textContent as a value (None: "--")
    mdWritten,      \* the setpoint cfg.write showed last (None: never)
    mdNet,          \* outstanding requests: id -> kind ("read", "write"),
                    \* the session that issued it, the value it carries
    mdSession,      \* number of openModal calls so far (history)
    mdEvent,        \* the click the task that just ran handled, "" when it
                    \* handled none (history)
    \* ---- mode-control.js ------------------------------------------------
    menuPc,         \* "boot", "ready" (DOMContentLoaded has fired) or "left"
                    \* (the stop handler navigated away)
    igniteShown,    \* the ignite button is displayed (style.display is "")
    workShown,      \* the work button is displayed
    menuMode,       \* state.mode refreshMenuModeButtons applied last (None:
                    \* it has applied none; history)
    menuNet,        \* outstanding requests: id -> kind ("current", "mode")
                    \* and, for "mode", the mode asked for and the button
    menuStatus      \* text of the status line

pollerVars == <<hidden, loaded, timer, timers, inFlight, controller,
                pollerRunning, net>>
viewVars == <<raf, frames, queued, prev, status, lastWrites, displayed,
             lastApplied, reapplied, overwritten, hidInFlight>>
cfgVars == <<cfgPc, modules, loadIdx, loadGot, configState, schemaCache, panel,
             activeTab, activeButtons, activePanels, saveBtn, saveDisabled,
             putNet, cfgStatus, pressed>>
pmVars == <<pmLoaded, pmIssued, pmNet, pmApplied, pmShown, pmStatus>>
manVars == <<manLoaded, manBusy, manSwitch, manEnabled, manFan, manToggles,
             manStorage, manNet, manStatus, manEvent>>
mdVars == <<mdOpen, mdActive, mdCurrent, mdSaving, mdSaveDisabled, mdText,
            mdWritten, mdNet, mdSession, mdEvent>>
menuVars == <<menuPc, igniteShown, workShown, menuMode, menuNet, menuStatus>>
pageVars == <<pmVars, manVars, mdVars, menuVars>>
vars == <<pollerVars, viewVars, cfgVars, pageVars>>

----------------------------------------------------------------------------
(* Bounds *)

\* live polling loops (awaiting a fetch or holding a timer) allowed at once
MaxLoops == 2

\* configuration PUT requests the model lets be outstanding at once
MaxPuts == 2

\* requests the interval poller of panel-main.js issues before the model
\* stops its interval
MaxPolls == 3

\* requests of the manual-control page the model lets be outstanding at once
MaxOps == 3

\* times the setpoint modal is opened, and requests of the modal the model
\* lets be outstanding at once
MaxSessions == 2

\* steps of the target by which a setpoint the model lets be saved differs
\* from a value the modal loaded; the minus and plus presses are not limited
MaxDrift == 1

\* requests of the menu the model lets be outstanding at once
MaxMenuReqs == 2

TimerIds == 1..(MaxLoops + 1)
ReqIds == 1..(MaxLoops + 1)

None == <<>>
Some(x) == <<x>>

----------------------------------------------------------------------------
(* Device states the backend may return (GET /state/current) *)

StateA ==
    [sensors |-> [boiler_temp |-> Some(5834), radiators_temp |-> Some(4120),
                  mixer_temp |-> None, return_temp |-> Some(3550),
                  hopper_temp |-> Some(2500), flue_gas_temp |-> Some(14090)],
     outputs |-> [pump_co_on |-> FALSE, pump_cwu_on |-> TRUE, feeder_on |-> FALSE,
                  fan_power |-> Some(4540), power_percent |-> Some(5000)],
     mode |-> "WORK", mode_display |-> "",
     alarm_active |-> FALSE, alarm_message |-> ""]

\* boiler_temp 58.36 (same whole degree as 58.34), pump_co flipped
StateB ==
    [StateA EXCEPT !.sensors.boiler_temp = Some(5836), !.outputs.pump_co_on = TRUE]

\* nothing measured, no mode, an alarm without a message
StateC ==
    [sensors |-> [boiler_temp |-> None, radiators_temp |-> None,
                  mixer_temp |-> None, return_temp |-> None,
                  hopper_temp |-> None, flue_gas_temp |-> None],
     outputs |-> [pump_co_on |-> FALSE, pump_cwu_on |-> FALSE, feeder_on |-> FALSE,
                  fan_power |-> None, power_percent |-> None],
     mode |-> "", mode_display |-> "",
     alarm_active |-> TRUE, alarm_message |-> ""]

\* the states the backend returns
PolledStates == {StateA, StateB, StateC}

\* A response to GET /state/current: how the fetch ended (kind), whether the
\* body is JSON (parses), and the JSON it carries (data).
NoResp == [kind |-> "none", parses |-> FALSE, data |-> StateA]
Responses ==
    {[kind |-> "ok", parses |-> TRUE, data |-> d] : d \in PolledStates}
    \cup {[kind |-> "http", parses |-> TRUE, data |-> StateB]}
    \cup {[kind |-> "ok", parses |-> FALSE, data |-> StateA],
          [kind |-> "neterr", parses |-> FALSE, data |-> StateA]}

----------------------------------------------------------------------------
(* part_005: pure helpers *)

\* Math.round(n / d) for an integer n and d > 0, away from ties
MathRound(n, d) == (2 * n + d) \div (2 * d)

\* round1 = (v) => (v == null ? null : Math.round(v * 10) / 10), in tenths
round1(v) == IF v = None THEN None ELSE Some(MathRound(v[1], 10))

\* formatTemp(v): v in tenths; the whole degrees shown, "--" as None
formatTemp(v) == IF v = None THEN None ELSE Some(MathRound(v[1], 10))

\* mutant: the comparison is lost, every field counts as changed
setIfChangedTestAlways(bucket, key, value) == TRUE

\* the test of setIfChanged: `bucket[key] !== value`
setIfChangedTest(bucket, key, value) ==
    key \notin DOMAIN bucket \/ bucket[key] # value

\* mutant: the setter is called but the bucket is not updated
setIfChangedForgets(bucket, key, value) == bucket

\* the bucket after setIfChanged(bucket, key, value, setter)
setIfChanged(bucket, key, value) ==
    IF setIfChangedTest(bucket, key, value)
    THEN [k \in DOMAIN bucket \cup {key} |-> IF k = key THEN value ELSE bucket[k]]
    ELSE bucket

\* the setter call of setIfChanged(bucket, key, value, setter)
setterCalls(bucket, key, value, setter) ==
    IF setIfChangedTest(bucket, key, value) THEN {setter} ELSE {}

\* the argument of the setter call of setIfChanged(bucket, key, value, setter)
setterArgs(bucket, key, value, setter) ==
    IF setIfChangedTest(bucket, key, value) THEN (setter :> value) ELSE <<>>

alarmTextOf(state) ==
    IF state.alarm_active
    THEN Some("ALARM: " \o (IF state.alarm_message # "" THEN state.alarm_message
                                                     ELSE "Nieznany blad"))
    ELSE None

\* applyState(state) run on snapshot pv: the new snapshot, the setters called,
\* the values they were called with and the status line written (None: not
\* written)
applyState(pv, state) ==
    LET s == state.sensors
        o == state.outputs
        mixerTemp == IF s.mixer_temp # None THEN s.mixer_temp ELSE s.return_temp
        fan == IF o.fan_power = None THEN 0 ELSE MathRound(o.fan_power[1], 100)
        modeDisplay == IF state.mode_display # "" THEN state.mode_display
                       ELSE IF state.mode # "" THEN state.mode ELSE "nieznany"
        power == IF o.power_percent # None THEN MathRound(o.power_percent[1], 100) ELSE 0
        alarmText == alarmTextOf(state)
        t1 == setIfChanged(pv.temps, "boiler", round1(s.boiler_temp))
        t2 == setIfChanged(t1, "rads", round1(s.radiators_temp))
        t3 == setIfChanged(t2, "mixer", round1(mixerTemp))
        t4 == setIfChanged(t3, "auger", round1(s.hopper_temp))
        t5 == setIfChanged(t4, "exhaust", round1(s.flue_gas_temp))
        o1 == setIfChanged(pv.outputs, "pump_co", o.pump_co_on)
        o2 == setIfChanged(o1, "pump_cwu", o.pump_cwu_on)
        o3 == setIfChanged(o2, "feeder", o.feeder_on)
        o4 == setIfChanged(o3, "fan", fan)
        p1 == setIfChanged([pv EXCEPT !.temps = t5, !.outputs = o4], "mode", Some(modeDisplay))
        p2 == setIfChanged(p1, "power", Some(power))
        alarmChanged == p2.alarm # alarmText
        p3 == IF alarmChanged THEN [p2 EXCEPT !.alarm = alarmText] ELSE p2
    IN  [prev |-> p3,
         writes |->
               setterCalls(pv.temps, "boiler", round1(s.boiler_temp), "temps.setFurnace")
         \cup  setterCalls(pv.temps, "rads", round1(s.radiators_temp), "temps.setRadiators")
         \cup  setterCalls(pv.temps, "mixer", round1(mixerTemp), "temps.setMixer")
         \cup  setterCalls(pv.temps, "auger", round1(s.hopper_temp), "temps.setAuger")
         \cup  setterCalls(pv.temps, "exhaust", round1(s.flue_gas_temp), "temps.setExhaust")
         \cup  setterCalls(pv.outputs, "pump_co", o.pump_co_on, "pumps.set.co")
         \cup  setterCalls(pv.outputs, "pump_cwu", o.pump_cwu_on, "pumps.set.cwu")
         \cup  setterCalls(pv.outputs, "feeder", o.feeder_on, "auger.set")
         \cup  setterCalls(pv.outputs, "fan", fan, "blower.setPower")
         \cup  setterCalls(pv, "mode", Some(modeDisplay), "ui.setMode")
         \cup  setterCalls(pv, "power", Some(power), "power.setPercent")
         \cup  (IF alarmChanged /\ alarmText # None THEN {"ui.setStatus"} ELSE {}),
         args |->
               setterArgs(pv.temps, "boiler", round1(s.boiler_temp), "temps.setFurnace")
           @@  setterArgs(pv.temps, "rads", round1(s.radiators_temp), "temps.setRadiators")
           @@  setterArgs(pv.temps, "mixer", round1(mixerTemp), "temps.setMixer")
           @@  setterArgs(pv.temps, "auger", round1(s.hopper_temp), "temps.setAuger")
           @@  setterArgs(pv.temps, "exhaust", round1(s.flue_gas_temp), "temps.setExhaust")
           @@  setterArgs(pv.outputs, "pump_co", o.pump_co_on, "pumps.set.co")
           @@  setterArgs(pv.outputs, "pump_cwu", o.pump_cwu_on, "pumps.set.cwu")
           @@  setterArgs(pv.outputs, "feeder", o.feeder_on, "auger.set")
           @@  setterArgs(pv.outputs, "fan", fan, "blower.setPower")
           @@  setterArgs(pv, "mode", Some(modeDisplay), "ui.setMode")
           @@  setterArgs(pv, "power", Some(power), "power.setPercent"),
         status |-> IF alarmChanged /\ alarmText # None THEN alarmText ELSE None]

\* The view-model part of the state as one record
View == [raf |-> raf, frames |-> frames, queued |-> queued, prev |-> prev,
         status |-> status, writes |-> {}, displayed |-> displayed,
         lastApplied |-> lastApplied,
         reapplied |-> reapplied, overwritten |-> overwritten]

\* mutant: the `if (raf) return` test is lost
frameAlreadyRequestedNever(v) == FALSE

\* `if (raf) return;`
frameAlreadyRequested(v) == v.raf

\* mutant: a state that arrives while one is queued is dropped (first wins)
updateUIFromStateKeepsFirst(v, state) ==
    IF v.queued # None THEN v
    ELSE [v EXCEPT !.queued = Some(state), !.overwritten = FALSE,
                   !.raf = TRUE, !.frames = @ + 1]

\* updateUIFromState(state)
updateUIFromState(v, state) ==
    LET q == [v EXCEPT !.queued = Some(state),
                       !.overwritten = (v.queued # None)]
    IN  IF frameAlreadyRequested(q) THEN q
        ELSE [q EXCEPT !.raf = TRUE, !.frames = @ + 1]

\* the requestAnimationFrame callback of updateUIFromState
frameCallback(v) ==
    LET v1 == [v EXCEPT !.raf = FALSE, !.frames = @ - 1]
    IN  IF v1.queued = None THEN v1
        ELSE LET r == applyState(v1.prev, v1.queued[1])
             IN  [v1 EXCEPT !.prev = r.prev,
                            !.writes = r.writes,
                            !.displayed = r.args @@ @,
                            !.status = IF r.status = None THEN @ ELSE r.status[1],
                            !.lastApplied = v1.queued,
                            !.reapplied = (v1.lastApplied = v1.queued),
                            !.queued = None]

----------------------------------------------------------------------------
(* part_005: the poller.  The poller's part of the state as one record;     *)
(* jobs is the microtask queue of the running task.                        *)

Poller == [timer |-> timer, timers |-> timers, inFlight |-> inFlight,
           controller |-> controller, running |-> pollerRunning, net |-> net,
           jobs |-> <<>>, reported |-> FALSE]

\* the id setTimeout returns: not a pending timer's, not the one `timer` holds
FreshTimer(p) ==
    CHOOSE i \in TimerIds :
        /\ i \notin p.timers \cup {p.timer}
        /\ \A j \in TimerIds : j \notin p.timers \cup {p.timer} => i <= j

\* the identity of a new AbortController and of its request
FreshReq(p) ==
    CHOOSE i \in ReqIds :
        /\ i \notin DOMAIN p.net \cup {p.controller}
        /\ \A j \in ReqIds : j \notin DOMAIN p.net \cup {p.controller} => i <= j

\* controller.abort(): a fetch still pending on that signal rejects with
\* AbortError; its `await` continues in a microtask
abort(p) ==
    IF p.controller \in DOMAIN p.net
    THEN [p EXCEPT !.net = [i \in DOMAIN p.net \ {p.controller} |-> p.net[i]],
                   !.jobs = Append(@, "abortCatch")]
    ELSE p

\* mutant: the in-flight guard is lost
fetchStateSkipsNever(p) == FALSE

\* `if (inFlight) return;`
fetchStateSkips(p) == p.inFlight

\* fetchState() up to its first await
fetchState(p) ==
    IF fetchStateSkips(p) THEN p
    ELSE LET a == abort([p EXCEPT !.inFlight = TRUE])
             id == FreshReq(a)
         IN  [a EXCEPT !.controller = id, !.net = (id :> NoResp) @@ @]

\* mutant: a tick that finds the guard held gives it up and polls again
loopResetsGuard(p) ==
    LET a == abort([p EXCEPT !.inFlight = TRUE])
        id == FreshReq(a)
    IN  [a EXCEPT !.controller = id, !.net = (id :> NoResp) @@ @]

\* loop() up to `await fetchState()`: a fetchState that returned at once
\* resumes the loop in a microtask
loop(p) ==
    IF fetchStateSkips(p)
    THEN [fetchState(p) EXCEPT !.jobs = Append(@, "loopCont")]
    ELSE fetchState(p)

stopPolling(p) ==
    [abort([p EXCEPT !.timers = @ \ {p.timer}, !.timer = 0])
        EXCEPT !.running = FALSE]

startPolling(p) ==
    IF p.running THEN p
    ELSE loop(stopPolling([p EXCEPT !.running = TRUE]))

\* mutant: the catch reports every error, an abort included
catchReportsAlways(name) == TRUE

\* `if (err?.name !== "AbortError")`: the catch reports the error
catchReports(name) == name # "AbortError"

\* The microtasks of the task, in queue order.
\*   abortCatch: fetchState's catch for an AbortError, its finally, and the
\*               resolution of the promise `loop` awaits; reported records
\*               that the catch wrote the status line
\*   loopCont  : `timer = setTimeout(loop, ms)`
RECURSIVE Drain(_)
Drain(p) ==
    IF p.jobs = <<>> THEN p
    ELSE IF Head(p.jobs) = "abortCatch"
    THEN Drain([p EXCEPT !.inFlight = FALSE,
                         !.reported = @ \/ catchReports("AbortError"),
                         !.jobs = Append(Tail(@), "loopCont")])
    ELSE LET id == FreshTimer(p)
         IN  Drain([p EXCEPT !.timer = id, !.timers = @ \cup {id},
                             !.jobs = Tail(@)])

LiveLoops(p) == Cardinality(p.timers) + Cardinality(DOMAIN p.net)

SetPoller(p) ==
    /\ timer' = p.timer
    /\ timers' = p.timers
    /\ inFlight' = p.inFlight
    /\ controller' = p.controller
    /\ pollerRunning' = p.running
    /\ net' = p.net

SetView(v) ==
    /\ raf' = v.raf
    /\ frames' = v.frames
    /\ queued' = v.queued
    /\ prev' = v.prev
    /\ status' = v.status
    /\ lastWrites' = v.writes
    /\ displayed' = v.displayed
    /\ lastApplied' = v.lastApplied
    /\ reapplied' = v.reapplied
    /\ overwritten' = v.overwritten

\* a task that calls no renderer setter and leaves the view-model alone
ViewIdle == SetView(View)

\* the view-model after a task whose microtasks were those of poller p: the
\* status line shows the error when a catch reported one
afterJobs(v, p) ==
    IF p.reported THEN [v EXCEPT !.status = "Blad komunikacji z serwerem"] ELSE v

\* mutant: a failed response's body is applied like a good one
pollFailedNever(r) == FALSE

\* the response makes fetchState throw: fetch rejected, `!response.ok`, or
\* response.json() rejected
pollFailed(r) == r.kind # "ok" \/ ~r.parses

\* mutant: the catch rethrows, the promise `loop` awaits rejects and the loop
\* ends without a next timer
fetchStateSettledRethrows(r) == IF pollFailed(r) THEN <<>> ELSE <<"loopCont">>

\* the microtasks left when fetchState() ends for response r: its catch
\* swallows every error, so the promise `loop` awaits resolves and the loop
\* goes on to `timer = setTimeout(loop, ms)`
fetchStateSettled(r) == <<"loopCont">>

\* mutant: the snapshot is written by the call that receives the state
fetchStateResumeApplies(v, r) ==
    IF pollFailed(r)
    THEN [v EXCEPT !.status = "Blad komunikacji z serwerem"]
    ELSE [updateUIFromState(v, r.data) EXCEPT
             !.prev = applyState(v.prev, r.data).prev, !.status = "OK"]

\* fetchState() from the settled fetch to its end, on the view-model
fetchStateResume(v, r) ==
    IF pollFailed(r)
    THEN (IF catchReports("Error")
          THEN [v EXCEPT !.status = "Blad komunikacji z serwerem"] ELSE v)
    ELSE [updateUIFromState(v, r.data) EXCEPT !.status = "OK"]

----------------------------------------------------------------------------
(* part_005: tasks *)

PollerInit ==
    /\ hidden \in BOOLEAN
    /\ loaded = FALSE
    /\ timer = 0
    /\ timers = {}
    /\ inFlight = FALSE
    /\ controller = 0
    /\ pollerRunning = FALSE
    /\ net = <<>>
    /\ raf = FALSE
    /\ frames = 0
    /\ queued = None
    /\ prev = [temps |-> <<>>, outputs |-> <<>>, mode |-> None, power |-> None,
               alarm |-> None]
    /\ status = ""
    /\ lastWrites = {}
    /\ displayed = <<>>
    /\ lastApplied = None
    /\ reapplied = FALSE
    /\ overwritten = FALSE
    /\ hidInFlight = FALSE

\* document "DOMContentLoaded": startPolling(5000)
DOMContentLoaded ==
    /\ ~loaded
    /\ LET p == Drain(startPolling(Poller))
       IN  /\ LiveLoops(p) <= MaxLoops
           /\ SetPoller(p)
           /\ SetView(afterJobs(View, p))
    /\ loaded' = TRUE
    /\ UNCHANGED <<hidden, hidInFlight>>
    /\ UNCHANGED <<cfgVars, pageVars>>

\* document "visibilitychange" with document.hidden: stopPolling()
VisibilityHidden ==
    /\ ~hidden
    /\ hidden' = TRUE
    /\ LET p == Drain(stopPolling(Poller))
       IN  /\ SetPoller(p)
           /\ SetView(afterJobs(View, p))
    /\ hidInFlight' = (net # <<>>)
    /\ UNCHANGED loaded
    /\ UNCHANGED <<cfgVars, pageVars>>

\* document "visibilitychange" with the page visible: startPolling(5000)
VisibilityVisible ==
    /\ hidden
    /\ hidden' = FALSE
    /\ LET p == Drain(startPolling(Poller))
       IN  /\ LiveLoops(p) <= MaxLoops
           /\ SetPoller(p)
           /\ SetView(afterJobs(View, p))
    /\ hidInFlight' = FALSE
    /\ UNCHANGED loaded
    /\ UNCHANGED <<cfgVars, pageVars>>

\* a setTimeout(loop, ms) callback fires
Tick(t) ==
    /\ t \in timers
    /\ LET p == Drain(loop([Poller EXCEPT !.timers = @ \ {t}]))
       IN  /\ SetPoller(p)
           /\ SetView(afterJobs(View, p))
    /\ UNCHANGED <<hidden, loaded, hidInFlight>>
    /\ UNCHANGED <<cfgVars, pageVars>>

\* the backend (or the network) answers request id with r
Respond(id, r) ==
    /\ id \in DOMAIN net
    /\ net[id] = NoResp
    /\ net' = [net EXCEPT ![id] = r]
    /\ ViewIdle
    /\ UNCHANGED <<hidden, loaded, timer, timers, inFlight, controller,
                   pollerRunning, hidInFlight>>
    /\ UNCHANGED <<cfgVars, pageVars>>

\* the fetch of request id settles: fetchState runs to its end and the loop
\* that awaited it sets its next timer
Complete(id) ==
    /\ id \in DOMAIN net
    /\ net[id] # NoResp
    /\ SetView(fetchStateResume(View, net[id]))
    /\ SetPoller(Drain([Poller EXCEPT
                          !.net = [i \in DOMAIN net \ {id} |-> net[i]],
                          !.inFlight = FALSE,
                          !.jobs = fetchStateSettled(net[id])]))
    /\ UNCHANGED <<hidden, loaded, hidInFlight>>
    /\ UNCHANGED <<cfgVars, pageVars>>

\* the animation frame: the callback updateUIFromState registered
Frame ==
    /\ frames > 0
    /\ SetView(frameCallback(View))
    /\ UNCHANGED <<pollerVars, hidInFlight>>
    /\ UNCHANGED <<cfgVars, pageVars>>

PollerNext ==
    \/ DOMContentLoaded
    \/ VisibilityHidden
    \/ VisibilityVisible
    \/ \E t \in TimerIds : Tick(t)
    \/ \E id \in ReqIds, r \in Responses : Respond(id, r)
    \/ \E id \in ReqIds : Complete(id)
    \/ Frame

----------------------------------------------------------------------------
(* settings-config.js: values, schemas and what the backend may answer      *)

\* A JSON value (or undefined), tagged by its type
Num(n) == [num |-> n]
Bool(b) == [bool |-> b]
Str(x) == [str |-> x]
Null == [null |-> TRUE]
Undefined == [undef |-> TRUE]

IsNum(v) == DOMAIN v = {"num"}
IsNullish(v) == v = Null \/ v = Undefined

\* GET /config/schema/A: a bounded number whose unit is blank and a switch
\* with a label of its own for "on"
SchemaA ==
    <<[key |-> "t", type |-> "number", default |-> None, min |-> Some(7900),
       max |-> Some(8000), step |-> Some(50), precision |-> None,
       options |-> None, unit |-> Some(" "), label_on |-> None,
       label_off |-> None],
      [key |-> "en", type |-> "bool", default |-> None, min |-> None,
       max |-> None, step |-> None, precision |-> None, options |-> None,
       unit |-> None, label_on |-> Some("WL"), label_off |-> None]>>

\* GET /config/schema/B: a field of an unsupported type, a text without
\* options, then an enumerated text
SchemaB ==
    <<[key |-> "note", type |-> "string", default |-> None, min |-> None,
       max |-> None, step |-> None, precision |-> None, options |-> None,
       unit |-> None, label_on |-> None, label_off |-> None],
      [key |-> "tag", type |-> "text", default |-> None, min |-> None,
       max |-> None, step |-> None, precision |-> None, options |-> None,
       unit |-> None, label_on |-> None, label_off |-> None],
      [key |-> "mode", type |-> "text", default |-> None, min |-> None,
       max |-> None, step |-> None, precision |-> None,
       options |-> Some(<<"OFF", "IGNITION", "WORK", "MANUAL">>),
       unit |-> None, label_on |-> None, label_off |-> None]>>

\* GET /config/schema/N: one number field, min 10, max 80, step 0.5, in
\* degrees Celsius
SchemaN ==
    <<[key |-> "v", type |-> "number", default |-> None, min |-> Some(1000),
       max |-> Some(8000), step |-> Some(50), precision |-> None,
       options |-> None, unit |-> Some("C"), label_on |-> None,
       label_off |-> None]>>

ModuleIds == {"A", "B"}
SchemaOf(m) == IF m = "A" THEN SchemaA ELSE SchemaB

\* the module lists GET /config/modules may return
ModuleLists == {<<>>, <<"A", "B">>}

\* GET /config/values/{m}: well-formed values, a number outside the declared
\* bounds, a non-numeric value with a key missing
LoadValues(m) ==
    IF m = "A"
    THEN {[t |-> Num(7980), en |-> Bool(TRUE)],
          [t |-> Num(9500), en |-> Bool(FALSE)],
          [t |-> Str("abc")]}
    ELSE {[mode |-> Str("WORK"), note |-> Str("hi"), tag |-> Str("abc")],
          [mode |-> Str("Stale")]}

\* what PUT /config/values/{m} may return besides the body it was sent: a value
\* not rounded to the field's precision, a key the schema does not define, a
\* schema key missing, a null
SaveValues(m) ==
    IF m = "A"
    THEN {[t |-> Num(7934), extra |-> Num(100)]}
    ELSE {[mode |-> Str("OFF"), note |-> Null]}

\* a fetchJson outcome: kind is "fail" (fetch rejected or non-2xx: it throws),
\* "null" (2xx whose body is not JSON: it returns null) or "ok" (payload)
NoAnswer == [kind |-> "none", payload |-> <<>>]
Failed == [kind |-> "fail", payload |-> <<>>]
NullBody == [kind |-> "null", payload |-> <<>>]
Ok(x) == [kind |-> "ok", payload |-> x]

----------------------------------------------------------------------------
(* settings-config.js: pure helpers *)

\* Number(x): None is NaN.  Strings of the model are not numerals.
Number(v) ==
    IF IsNum(v) THEN Some(v.num)
    ELSE IF DOMAIN v = {"bool"} THEN Some(IF v.bool THEN 100 ELSE 0)
    ELSE IF v = Null THEN Some(0)
    ELSE None

\* `Number(x) || 0`
NumberOr0(v) == IF Number(v) = None THEN 0 ELSE Number(v)[1]

\* !!x
Truthy(v) ==
    IF DOMAIN v = {"bool"} THEN v.bool
    ELSE IF IsNum(v) THEN v.num # 0
    ELSE IF DOMAIN v = {"str"} THEN v.str # ""
    ELSE FALSE

\* the weight, in hundredths, of one unit of the last of `decimals` places
UnitOf(decimals) == IF decimals = 0 THEN 100 ELSE IF decimals = 1 THEN 10 ELSE 1

\* roundTo(num, decimals) of a number n (None: not finite)
roundTo(n, decimals) ==
    IF n = None THEN 0
    ELSE MathRound(n[1], UnitOf(decimals)) * UnitOf(decimals)

\* the fractional digits of String(step)
StepDigits(step) ==
    IF step % 100 = 0 THEN 0 ELSE IF step % 10 = 0 THEN 1 ELSE 2

getNumberPrecision(def) ==
    IF def.precision # None
    THEN (IF def.precision[1] > 0 THEN def.precision[1] ELSE 0)
    ELSE IF def.step # None THEN StepDigits(def.step[1])
    ELSE 2

\* values[key]
Lookup(values, key) == IF key \in DOMAIN values THEN values[key] ELSE Undefined

\* obj[key] = value
Assign(obj, key, value) ==
    [k \in DOMAIN obj \cup {key} |-> IF k = key THEN value ELSE obj[k]]

\* JSON.parse(JSON.stringify(obj)): members that are undefined are left out
Jsonify(obj) ==
    [k \in {j \in DOMAIN obj : obj[j] # Undefined} |-> obj[k]]

\* renderField: the value it starts from (defaulting, then rounding)
initialValue(def, rawValue) ==
    LET v == IF IsNullish(rawValue)
             THEN IF def.default # None THEN def.default[1]
                  ELSE IF def.type = "number"
                       THEN (IF def.min # None THEN Num(def.min[1]) ELSE Num(0))
                  ELSE IF def.type = "text" /\ def.options # None
                          /\ Len(def.options[1]) > 0
                       THEN Str(def.options[1][1])
                  ELSE rawValue
             ELSE rawValue
    IN  IF def.type = "number"
        THEN Num(roundTo(Number(v), getNumberPrecision(def)))
        ELSE v

\* String(value ?? "")
textOf(v) == IF IsNullish(v) THEN Str("") ELSE v

\* val.toUpperCase() of a text: of the texts of the model these have a
\* lower-case letter
toUpperCase(v) ==
    IF v = Str("Stale") THEN Str("STALE")
    ELSE IF v = Str("hi") THEN Str("HI")
    ELSE IF v = Str("abc") THEN Str("ABC")
    ELSE v

\* `unit && unit.trim().length` with `unit = def.unit || ""`: the suffix
\* renderNumber appends (None: no suffix)
unitSuffix(def) ==
    IF def.unit # None /\ def.unit[1] \notin {"", " "} THEN def.unit ELSE None

\* `def.label_on || "ON"`, `def.label_off || "OFF"`
labelOf(label, fallback) ==
    IF label # None /\ label[1] # "" THEN label[1] ELSE fallback

\* what the field's value element shows for Draft value v: a number fixed to
\* the precision with the unit after it, the switch label, the text of an
\* enumerated field in upper case, or (fallback) the text as it is
display(def, v) ==
    IF def.type = "number"
    THEN [fixed |-> v.num, digits |-> getNumberPrecision(def),
          unit |-> unitSuffix(def)]
    ELSE IF def.type = "bool"
    THEN [label |-> IF v.bool THEN labelOf(def.label_on, "ON")
                    ELSE labelOf(def.label_off, "OFF")]
    ELSE IF def.type = "text" /\ def.options # None
    THEN [text |-> toUpperCase(textOf(v))]
    ELSE [text |-> textOf(v)]

\* renderNumber(): the Draft value it stores
renderNumber(def, v) == Num(roundTo(Some(NumberOr0(v)), getNumberPrecision(def)))

\* the Draft value renderField leaves for the field
renderedValue(def, rawValue) ==
    LET v == initialValue(def, rawValue)
    IN  IF def.type = "number" THEN renderNumber(def, v)
        ELSE IF def.type = "bool" THEN Bool(Truthy(v))
        ELSE v

\* mutant: a field of an unsupported type makes the rendering throw; the
\* fields after it are not rendered
RECURSIVE renderFieldsThrows(_, _, _, _, _)
renderFieldsThrows(draft, text, fields, values, i) ==
    IF i > Len(fields) \/ fields[i].type \notin {"number", "bool", "text"}
    THEN [draft |-> draft, text |-> text]
    ELSE LET def == fields[i]
             v == renderedValue(def, Lookup(values, def.key))
         IN  renderFieldsThrows(Assign(draft, def.key, v),
                                Assign(text, def.key, display(def, v)),
                                fields, values, i + 1)

\* renderModulePanel(moduleId, schema, values) from field i on: draft is
\* configState[moduleId], text what the panel shows
RECURSIVE renderFields(_, _, _, _, _)
renderFields(draft, text, fields, values, i) ==
    IF i > Len(fields) THEN [draft |-> draft, text |-> text]
    ELSE LET def == fields[i]
             v == renderedValue(def, Lookup(values, def.key))
         IN  renderFields(Assign(draft, def.key, v),
                          Assign(text, def.key, display(def, v)),
                          fields, values, i + 1)

renderModulePanel(draft, schema, values) ==
    renderFields(draft, <<>>, schema, values, 1)

\* the field definition of key in a schema
FieldOf(schema, key) ==
    schema[CHOOSE i \in 1..Len(schema) : schema[i].key = key]

Keys(schema) == {schema[i].key : i \in 1..Len(schema)}

\* the step the number widget uses
stepOf(def) ==
    IF def.step # None THEN def.step[1] ELSE UnitOf(getNumberPrecision(def))

\* mutant: the handlers forget the bounds
clampNone(def, current) == current

\* `if (min !== null && current < min) current = min; if (max ...`
clamp(def, current) ==
    LET lo == IF def.min # None /\ current < def.min[1] THEN def.min[1] ELSE current
    IN  IF def.max # None /\ lo > def.max[1] THEN def.max[1] ELSE lo

\* the minus (dir = -1) and plus (dir = 1) click handlers: the new Draft value
pressNumber(def, v, dir) ==
    LET current == clamp(def, NumberOr0(v) + dir * stepOf(def))
        rounded == Num(roundTo(Some(current), getNumberPrecision(def)))
    IN  renderNumber(def, rounded)

\* mutant: a value that is not an option counts as the last option
indexOrFirstLast(options, v) ==
    IF \E i \in 1..Len(options) : Str(options[i]) = textOf(v)
    THEN CHOOSE i \in 1..Len(options) : Str(options[i]) = textOf(v)
    ELSE Len(options)

\* options.indexOf(current), 0 when absent (indices from 1 here)
indexOrFirst(options, v) ==
    IF \E i \in 1..Len(options) : Str(options[i]) = textOf(v)
    THEN CHOOSE i \in 1..Len(options) :
            /\ Str(options[i]) = textOf(v)
            /\ \A j \in 1..(i - 1) : Str(options[j]) # textOf(v)
    ELSE 1

\* the prev (dir = -1) and next (dir = 1) click handlers
pressText(def, v, dir) ==
    LET options == def.options[1]
        idx == indexOrFirst(options, v) - 1
    IN  Str(options[((idx + dir + Len(options)) % Len(options)) + 1])

----------------------------------------------------------------------------
(* settings-config.js: the engine.  Its state as one record.               *)

Cfg == [pc |-> cfgPc, modules |-> modules, loadIdx |-> loadIdx,
        loadGot |-> loadGot, configState |-> configState,
        schemaCache |-> schemaCache, panel |-> panel, activeTab |-> activeTab,
        activeButtons |-> activeButtons, activePanels |-> activePanels,
        saveBtn |-> saveBtn, saveDisabled |-> saveDisabled, putNet |-> putNet,
        status |-> cfgStatus, pressed |-> 0]

SetCfg(c) ==
    /\ cfgPc' = c.pc
    /\ modules' = c.modules
    /\ loadIdx' = c.loadIdx
    /\ loadGot' = c.loadGot
    /\ configState' = c.configState
    /\ schemaCache' = c.schemaCache
    /\ panel' = c.panel
    /\ activeTab' = c.activeTab
    /\ activeButtons' = c.activeButtons
    /\ activePanels' = c.activePanels
    /\ saveBtn' = c.saveBtn
    /\ saveDisabled' = c.saveDisabled
    /\ putNet' = c.putNet
    /\ cfgStatus' = c.status
    /\ pressed' = c.pressed

NothingLoading == [schema |-> NoAnswer, values |-> NoAnswer]
EmptyPanel == [kind |-> "empty", text |-> <<>>]
ErrorPanel == [kind |-> "error", text |-> <<>>]

\* the head of the `for (const module of modules)` loop at index i: the two
\* requests of loadModuleSchemaAndValues go out, or the loop ends
startLoad(c, i) ==
    IF i > Len(c.modules)
    THEN [c EXCEPT !.pc = "done", !.loadIdx = 0, !.loadGot = NothingLoading,
                   !.status = [kind |-> "loaded", module |-> ""]]
    ELSE [c EXCEPT !.pc = "loading", !.loadIdx = i, !.loadGot = NothingLoading]

\* mutant: after showing the error the loop is left (the error is rethrown)
loadCatchLeavesLoop(c) ==
    [c EXCEPT !.panel = Assign(@, c.modules[c.loadIdx], ErrorPanel),
              !.pc = "failed", !.loadIdx = 0, !.loadGot = NothingLoading,
              !.status = [kind |-> "initError", module |-> ""]]

\* the catch of the load loop: the module's panel shows the error and the
\* loop goes on
loadCatch(c) ==
    startLoad([c EXCEPT !.panel = Assign(@, c.modules[c.loadIdx], ErrorPanel)],
              c.loadIdx + 1)

\* loadModuleSchemaAndValues after Promise.all resolved with schema and values
\* (None: the body was not JSON, fetchJson returned null)
loadModuleSchemaAndValues(c, schema, values) ==
    LET m == c.modules[c.loadIdx]
        vals == IF values = None THEN <<>> ELSE values[1]
        c1 == [c EXCEPT !.schemaCache = Assign(@, m, schema),
                        !.configState = Assign(@, m, vals)]
    IN  IF schema = None
        THEN loadCatch(c1)     \* `schema.fields` of null throws
        ELSE LET r == renderModulePanel(vals, schema[1], vals)
             IN  startLoad([c1 EXCEPT
                              !.configState = Assign(@, m, r.draft),
                              !.panel = Assign(@, m, [kind |-> "fields",
                                                      text |-> r.text])],
                           c.loadIdx + 1)

\* one of the two fetchJson calls of the load settles with answer a
loadAnswer(c, which, a) ==
    LET got == [c.loadGot EXCEPT ![which] = a]
        payloadOf(x) == IF x.kind = "ok" THEN Some(x.payload) ELSE None
    IN  IF a.kind = "fail" THEN loadCatch(c)
        ELSE IF got.schema = NoAnswer \/ got.values = NoAnswer
        THEN [c EXCEPT !.loadGot = got]
        ELSE loadModuleSchemaAndValues(c, payloadOf(got.schema),
                                       payloadOf(got.values))

\* initConfigUI after `await fetchJson(.../modules)`
initConfigUI(c, a) ==
    IF a.kind = "fail"
    THEN [c EXCEPT !.pc = "failed",
                   !.status = [kind |-> "initError", module |-> ""]]
    ELSE IF a.kind = "null" \/ Len(a.payload) = 0
    THEN [c EXCEPT !.pc = "done",
                   !.status = [kind |-> "noModules", module |-> ""]]
    ELSE startLoad([c EXCEPT
                      !.modules = a.payload,
                      !.panel = [m \in {a.payload[i] : i \in 1..Len(a.payload)}
                                    |-> EmptyPanel],
                      !.activeTab = a.payload[1],
                      !.activeButtons = {a.payload[1]},
                      !.activePanels = {a.payload[1]},
                      !.saveBtn = TRUE],
                   1)

\* the module ids of the tabs, in document order
TabIds(c) == {c.modules[i] : i \in 1..Len(c.modules)}

\* document.querySelector(".config-tab-button.active"): the first active tab
\* button in document order, "" when there is none
firstActive(c, buttons) ==
    IF buttons = {} THEN ""
    ELSE c.modules[CHOOSE i \in 1..Len(c.modules) :
                      /\ c.modules[i] \in buttons
                      /\ \A j \in 1..(i - 1) : c.modules[j] \notin buttons]

\* mutant: the class is added to the chosen tab and never removed from the
\* others
activateTabKeepsOthers(c, m) ==
    [c EXCEPT !.activeButtons = @ \cup {m},
              !.activePanels = @ \cup {m},
              !.activeTab = firstActive(c, c.activeButtons \cup {m})]

\* activateTab(moduleId): every button and every panel gets the class
\* "active" exactly when it is the one of moduleId
activateTab(c, m) ==
    [c EXCEPT !.activeButtons = {b \in TabIds(c) : b = m},
              !.activePanels = {q \in TabIds(c) : q = m},
              !.activeTab = firstActive(c, {b \in TabIds(c) : b = m})]

FreshPut(c) ==
    CHOOSE i \in 1..(Cardinality(DOMAIN c.putNet) + 1) : i \notin DOMAIN c.putNet

\* mutant: only the first schema field's key is sent
putBodyFirstField(c, m) ==
    IF m \in DOMAIN c.configState /\ m \in DOMAIN c.schemaCache
       /\ c.schemaCache[m] # None
    THEN [k \in DOMAIN c.configState[m] \cap {c.schemaCache[m][1][1].key}
            |-> c.configState[m][k]]
    ELSE <<>>

\* JSON.stringify(configState[moduleId] || {}), as the mapping it denotes
putBody(c, m) ==
    IF m \in DOMAIN c.configState THEN Jsonify(c.configState[m]) ELSE <<>>

\* fetchJson(.../values/{moduleId}, {method: "PUT", body}): the request goes out
sendPut(c, m) ==
    [c EXCEPT !.putNet = (FreshPut(c) :> [module |-> m, body |-> putBody(c, m),
                                          answer |-> NoAnswer]) @@ @]

\* mutant: the button is not disabled while the request is out
saveModuleConfigStartEnabled(c, m) ==
    sendPut([c EXCEPT !.status = [kind |-> "saving", module |-> m]], m)

\* saveModuleConfig(moduleId, saveBtn) up to its await
saveModuleConfigStart(c, m) ==
    sendPut([c EXCEPT !.saveDisabled = TRUE,
                      !.status = [kind |-> "saving", module |-> m]], m)

\* mutant: the Draft is replaced but the panel is not rendered again
saveSucceededNoRender(c, m, saved) ==
    [c EXCEPT !.configState = Assign(@, m, saved),
              !.status = [kind |-> "saved", module |-> m],
              !.saveDisabled = FALSE]

\* mutant: a save that succeeds brings the saved module's tab to the front
saveSucceededActivates(c, m, saved) ==
    [activateTab(c, m) EXCEPT !.configState = Assign(@, m, saved),
                              !.status = [kind |-> "saved", module |-> m],
                              !.saveDisabled = FALSE]

\* saveModuleConfig after the PUT returned `saved`, with its finally
saveSucceeded(c, m, saved) ==
    LET c1 == [c EXCEPT !.configState = Assign(@, m, saved),
                        !.status = [kind |-> "saved", module |-> m],
                        !.saveDisabled = FALSE]
    IN  IF m \in DOMAIN c.schemaCache /\ c.schemaCache[m] # None
        THEN LET r == renderModulePanel(saved, c.schemaCache[m][1], saved)
             IN  [c1 EXCEPT !.configState = Assign(@, m, r.draft),
                            !.panel = Assign(@, m, [kind |-> "fields",
                                                    text |-> r.text])]
        ELSE c1

\* mutant: only the success path enables the button again
saveFailedStaysDisabled(c, m) ==
    [c EXCEPT !.status = [kind |-> "saveError", module |-> ""]]

\* saveModuleConfig's catch, with its finally
saveFailed(c, m) ==
    [c EXCEPT !.status = [kind |-> "saveError", module |-> ""],
              !.saveDisabled = FALSE]

\* mutant: the response is applied to the module whose tab is active when it
\* arrives
saveTargetActive(c, req) == c.activeTab

\* the moduleId the click handler passed to saveModuleConfig: the call keeps
\* it across its await
saveTarget(c, req) == req.module

\* a click handler of a widget of field key of module m wrote value v
widgetWrote(c, m, key, v) ==
    LET def == FieldOf(c.schemaCache[m][1], key)
    IN  [c EXCEPT !.configState = Assign(@, m, Assign(c.configState[m], key, v)),
                  !.panel = Assign(@, m, [c.panel[m] EXCEPT
                                !.text = Assign(@, key, display(def, v))])]

----------------------------------------------------------------------------
(* settings-config.js: tasks *)

ConfigInit ==
    /\ cfgPc = "boot"
    /\ modules = <<>>
    /\ loadIdx = 0
    /\ loadGot = NothingLoading
    /\ configState = <<>>
    /\ schemaCache = <<>>
    /\ panel = <<>>
    /\ activeTab = ""
    /\ activeButtons = {}
    /\ activePanels = {}
    /\ saveBtn = FALSE
    /\ saveDisabled = FALSE
    /\ putNet = <<>>
    /\ cfgStatus = [kind |-> "", module |-> ""]
    /\ pressed = 0

Others == UNCHANGED <<pollerVars, viewVars, pageVars>>

\* document "DOMContentLoaded": initConfigUI() up to `await fetchJson(modules)`
ConfigDOMContentLoaded ==
    /\ cfgPc = "boot"
    /\ SetCfg([Cfg EXCEPT !.pc = "modules",
                          !.status = [kind |-> "loadingModules", module |-> ""]])
    /\ Others

\* GET /config/modules settles
ModulesAnswer(a) ==
    /\ cfgPc = "modules"
    /\ SetCfg(initConfigUI(Cfg, a))
    /\ Others

\* GET /config/schema/{m} of the module being loaded settles
SchemaAnswer ==
    /\ cfgPc = "loading"
    /\ loadGot.schema = NoAnswer
    /\ \E a \in {Failed, NullBody, Ok(SchemaOf(modules[loadIdx]))} :
          SetCfg(loadAnswer(Cfg, "schema", a))
    /\ Others

\* GET /config/values/{m} of the module being loaded settles
ValuesAnswer ==
    /\ cfgPc = "loading"
    /\ loadGot.values = NoAnswer
    /\ \E a \in {Failed} \cup {Ok(v) : v \in LoadValues(modules[loadIdx])} :
          SetCfg(loadAnswer(Cfg, "values", a))
    /\ Others

\* click on the tab button of module m
ActivateTab(m) ==
    /\ m \in DOMAIN panel
    /\ SetCfg(activateTab(Cfg, m))
    /\ Others

\* the widgets of module m's panel can be pressed: the panel shows fields
\* and is the visible one
Pressable(m, key, type) ==
    /\ m \in DOMAIN panel
    /\ panel[m].kind = "fields"
    /\ m \in activePanels
    /\ key \in Keys(schemaCache[m][1])
    /\ FieldOf(schemaCache[m][1], key).type = type

\* click on the minus (dir = -1) or plus (dir = 1) button of a number field
PressNumber(m, key, dir) ==
    /\ Pressable(m, key, "number")
    /\ SetCfg([widgetWrote(Cfg, m, key,
                  pressNumber(FieldOf(schemaCache[m][1], key),
                              configState[m][key], dir))
                  EXCEPT !.pressed = dir])
    /\ Others

\* click on the switch of a bool field
PressToggle(m, key) ==
    /\ Pressable(m, key, "bool")
    /\ SetCfg(widgetWrote(Cfg, m, key, Bool(~Truthy(configState[m][key]))))
    /\ Others

\* click on the previous (dir = -1) or next (dir = 1) button of a text field
PressText(m, key, dir) ==
    /\ Pressable(m, key, "text")
    /\ FieldOf(schemaCache[m][1], key).options # None
    /\ SetCfg([widgetWrote(Cfg, m, key,
                  pressText(FieldOf(schemaCache[m][1], key),
                            configState[m][key], dir))
                  EXCEPT !.pressed = dir])
    /\ Others

\* click on the save button (a disabled button gets no click)
SaveClick ==
    /\ saveBtn
    /\ ~saveDisabled
    /\ activeTab # ""
    /\ Cardinality(DOMAIN putNet) < MaxPuts
    /\ SetCfg(saveModuleConfigStart(Cfg, activeTab))
    /\ Others

\* the backend (or the network) answers PUT id: a failure, the body it was
\* sent, or a mapping it reconciled
PutAnswer(id) ==
    /\ id \in DOMAIN putNet
    /\ putNet[id].answer = NoAnswer
    /\ \E a \in {Failed, Ok(putNet[id].body)}
                \cup {Ok(v) : v \in SaveValues(putNet[id].module)} :
          putNet' = [putNet EXCEPT ![id].answer = a]
    /\ pressed' = 0
    /\ UNCHANGED <<cfgPc, modules, loadIdx, loadGot, configState, schemaCache,
                   panel, activeTab, activeButtons, activePanels, saveBtn,
                   saveDisabled, cfgStatus>>
    /\ Others

\* the fetchJson of PUT id settles: saveModuleConfig runs to its end
PutSettles(id) ==
    /\ id \in DOMAIN putNet
    /\ putNet[id].answer # NoAnswer
    /\ LET c == [Cfg EXCEPT !.putNet = [i \in DOMAIN putNet \ {id} |-> putNet[i]]]
           m == saveTarget(c, putNet[id])
       IN  SetCfg(IF putNet[id].answer.kind = "fail"
                  THEN saveFailed(c, m)
                  ELSE saveSucceeded(c, m, putNet[id].answer.payload))
    /\ Others

ConfigNext ==
    \/ ConfigDOMContentLoaded
    \/ \E a \in {Failed, NullBody} \cup {Ok(l) : l \in ModuleLists} : ModulesAnswer(a)
    \/ SchemaAnswer
    \/ ValuesAnswer
    \/ \E m \in ModuleIds : ActivateTab(m)
    \/ \E m \in ModuleIds, key \in {"t"}, dir \in {-1, 1} : PressNumber(m, key, dir)
    \/ \E m \in ModuleIds, key \in {"en"} : PressToggle(m, key)
    \/ \E m \in ModuleIds, key \in {"mode"}, dir \in {-1, 1} : PressText(m, key, dir)
    \/ SaveClick
    \/ \E id \in 1..MaxPuts : PutAnswer(id)
    \/ \E id \in 1..MaxPuts : PutSettles(id)

----------------------------------------------------------------------------
(* panel-main.js: the interval poller.  It has no in-flight guard: every    *)
(* interval tick issues a request, and each response is handled when it     *)
(* arrives.                                                                 *)

\* updateUIFromState(state) of panel-main.js: what each setter is called
\* with, and the status line it writes (None: not written)
panelUpdateUIFromState(state) ==
    LET s == state.sensors
        o == state.outputs
    IN  [shown |-> [setFurnace |-> s.boiler_temp,
                    setRadiators |-> s.radiators_temp,
                    setMixer |-> IF s.mixer_temp # None THEN s.mixer_temp
                                                      ELSE s.return_temp,
                    setAuger |-> s.hopper_temp,
                    setExhaust |-> s.flue_gas_temp,
                    pumpCo |-> o.pump_co_on,
                    pumpCwu |-> o.pump_cwu_on,
                    auger |-> o.feeder_on,
                    blower |-> IF o.fan_power = None THEN 0 ELSE o.fan_power[1],
                    setMode |-> IF state.mode_display # "" THEN state.mode_display
                                ELSE IF state.mode # "" THEN state.mode
                                ELSE "nieznany"],
         status |-> alarmTextOf(state)]

PanelMainInit ==
    /\ pmLoaded = FALSE
    /\ pmIssued = 0
    /\ pmNet = {}
    /\ pmApplied = 0
    /\ pmShown = None
    /\ pmStatus = ""

PanelOthers ==
    UNCHANGED <<pollerVars, viewVars, cfgVars, manVars, mdVars, menuVars>>

\* fetchState() of panel-main.js up to its await: the request goes out
PanelIssue ==
    /\ pmIssued' = pmIssued + 1
    /\ pmNet' = pmNet \cup {pmIssued + 1}

\* document "DOMContentLoaded": fetchState(); setInterval(fetchState, 5000)
PanelDOMContentLoaded ==
    /\ ~pmLoaded
    /\ pmLoaded' = TRUE
    /\ PanelIssue
    /\ UNCHANGED <<pmApplied, pmShown, pmStatus>>
    /\ PanelOthers

\* the interval fires: fetchState()
PanelInterval ==
    /\ pmLoaded
    /\ pmIssued < MaxPolls
    /\ PanelIssue
    /\ UNCHANGED <<pmLoaded, pmApplied, pmShown, pmStatus>>
    /\ PanelOthers

\* request id is answered with r and its fetchState runs to its end
PanelComplete(id, r) ==
    /\ id \in pmNet
    /\ pmNet' = pmNet \ {id}
    /\ IF pollFailed(r)
       THEN /\ pmStatus' = "Blad komunikacji z serwerem"
            /\ UNCHANGED <<pmApplied, pmShown>>
       ELSE LET u == panelUpdateUIFromState(r.data)
            IN  /\ pmShown' = Some(u.shown)
                /\ pmStatus' = IF u.status = None THEN pmStatus ELSE u.status[1]
                /\ pmApplied' = id
    /\ UNCHANGED <<pmLoaded, pmIssued>>
    /\ PanelOthers

PanelMainNext ==
    \/ PanelDOMContentLoaded
    \/ PanelInterval
    \/ \E id \in 1..MaxPolls, r \in Responses : PanelComplete(id, r)

----------------------------------------------------------------------------
(* script.js: the manual-control page.  The fan power and the slider value  *)
(* are whole numbers (percent).  The controls stand inside the fieldset:    *)
(* while it is disabled the browser delivers them no event.  A checkbox is  *)
(* flipped by the browser before its change handler runs.                   *)

\* `manual` objects GET /manual/current may return.  The backend never reports
\* both directions of the mixer on.
ManualOff == [fan_power |-> 0, feeder_on |-> FALSE, pump_co_on |-> FALSE,
              pump_cwu_on |-> FALSE, mixer_open_on |-> FALSE,
              mixer_close_on |-> FALSE]
ManualOn == [fan_power |-> 150, feeder_on |-> TRUE, pump_co_on |-> FALSE,
             pump_cwu_on |-> TRUE, mixer_open_on |-> TRUE,
             mixer_close_on |-> FALSE]

\* modes the backend may report; "" is a body without a mode
ManualModes == {"OFF", "WORK", "MANUAL", ""}

\* what GET /manual/current may answer
CurrentAnswers ==
    {Failed, NullBody}
    \cup {Ok([mode |-> m, manual |-> x]) : m \in ManualModes,
                                           x \in {ManualOff, ManualOn}}

\* what a POST may answer (its body is not read on success)
PostAnswers == {Failed, Ok(<<>>)}

\* the checkboxes and the slider values the user operates in the model
UserToggles == {"feeder_on", "mixer_open_on", "mixer_close_on"}
UserFans == {0, 50}

\* clampInt(v, min, max) for a numeric v
clampInt(v, min, max) ==
    LET lo == IF v < max THEN v ELSE max
    IN  IF lo > min THEN lo ELSE min

\* mutant: with nothing stored the return mode is MANUAL
loadLastNonManualModeManual(storage) ==
    IF storage # None /\ storage[1] # "" THEN storage[1] ELSE "MANUAL"

\* loadLastNonManualMode()
loadLastNonManualMode(storage) ==
    IF storage # None /\ storage[1] # "" THEN storage[1] ELSE "OFF"

\* saveLastNonManualMode(mode): the storage it leaves
saveLastNonManualMode(storage, mode) ==
    IF mode = "" \/ mode = "MANUAL" THEN storage ELSE Some(mode)

\* `if (data?.mode && data.mode !== "MANUAL") saveLastNonManualMode(data.mode)`
rememberMode(storage, data) ==
    IF data.mode # "" /\ data.mode # "MANUAL"
    THEN saveLastNonManualMode(storage, data.mode)
    ELSE storage

\* The page's part of the state as one record
Manual == [busy |-> manBusy, switch |-> manSwitch, enabled |-> manEnabled,
           fan |-> manFan, toggles |-> manToggles, storage |-> manStorage,
           net |-> manNet, status |-> manStatus]

SetManual(c) ==
    /\ manBusy' = c.busy
    /\ manSwitch' = c.switch
    /\ manEnabled' = c.enabled
    /\ manFan' = c.fan
    /\ manToggles' = c.toggles
    /\ manStorage' = c.storage
    /\ manNet' = c.net
    /\ manStatus' = c.status

\* applyManualToUi(modeName, manual)
applyManualToUi(c, modeName, manual) ==
    [c EXCEPT !.switch = (modeName = "MANUAL"),
              !.enabled = (modeName = "MANUAL"),
              !.fan = clampInt(manual.fan_power, 0, 100),
              !.toggles = [k \in DOMAIN c.toggles |-> manual[k]]]

FreshOp(c) ==
    CHOOSE i \in 1..MaxOps :
        /\ i \notin DOMAIN c.net
        /\ \A j \in 1..MaxOps : j \notin DOMAIN c.net => i <= j

\* a fetch goes out for operation op: the function awaits it
manSend(c, id, op, req, body) ==
    [c EXCEPT !.net = (id :> [op |-> op, req |-> req, body |-> body])
                      @@ [i \in DOMAIN c.net \ {id} |-> c.net[i]]]

\* mutant: the handlers do not test busy
manSkipsNever(c) == FALSE

\* `if (busy) return;`
manSkips(c) == c.busy

\* onFanCommit() up to its await
onFanCommit(c) ==
    IF manSkips(c) THEN c
    ELSE IF ~c.switch THEN [c EXCEPT !.status = "Tryb reczny jest wylaczony."]
    ELSE manSend([c EXCEPT !.busy = TRUE, !.status = "Ustawiam dmuchawe"],
                 FreshOp(c), "fan", "outputs",
                 [fan_power |-> clampInt(c.fan, 0, 100)])

\* the mutual exclusion of the mixer in onOutputsChange: target is the
\* checkbox that changed
mixerExclusion(t, target) ==
    IF target = "mixer_open_on" /\ t.mixer_open_on
    THEN [t EXCEPT !.mixer_close_on = FALSE]
    ELSE IF target = "mixer_close_on" /\ t.mixer_close_on
    THEN [t EXCEPT !.mixer_open_on = FALSE]
    ELSE t

\* onOutputsChange(e) up to its await
onOutputsChange(c, target) ==
    IF manSkips(c) THEN c
    ELSE IF ~c.switch THEN [c EXCEPT !.status = "Tryb reczny jest wylaczony."]
    ELSE LET t == mixerExclusion(c.toggles, target)
         IN  manSend([c EXCEPT !.toggles = t, !.busy = TRUE,
                               !.status = "Ustawiam wyjscia"],
                     FreshOp(c), "outputs", "outputs", t)

\* onModeSwitchChange() up to its first await
onModeSwitchChange(c) ==
    IF manSkips(c) THEN c
    ELSE IF c.switch
    THEN manSend([c EXCEPT !.busy = TRUE, !.status = "Wlaczam tryb reczny"],
                 FreshOp(c), "on", "mode", "MANUAL")
    ELSE manSend([c EXCEPT !.busy = TRUE, !.status = "Wylaczam tryb reczny"],
                 FreshOp(c), "off", "mode", loadLastNonManualMode(c.storage))

\* start() after its await: a is the outcome of fetchManualCurrent()
startResume(c, a) ==
    IF a.kind = "ok"
    THEN [applyManualToUi([c EXCEPT !.storage = rememberMode(@, a.payload)],
                          a.payload.mode, a.payload.manual)
             EXCEPT !.status = "Gotowe."]
    ELSE [applyManualToUi(c, "OFF", ManualOff) EXCEPT !.status = "error"]

\* onFanCommit / onOutputsChange after the await, with the finally
outputsResume(c, a) ==
    [c EXCEPT !.status = IF a.kind = "ok" THEN "OK." ELSE "error",
              !.busy = FALSE]

\* onModeSwitchChange's catch, with its finally
modeSwitchFailed(c, wantManual) ==
    [c EXCEPT !.switch = ~wantManual, !.status = "error", !.busy = FALSE]

\* onModeSwitchChange after `await fetchManualCurrent()`, with its finally
modeSwitchResume(c, wantManual, a) ==
    IF a.kind # "ok" THEN modeSwitchFailed(c, wantManual)
    ELSE LET c1 == IF wantManual THEN c
                   ELSE [c EXCEPT !.storage = rememberMode(@, a.payload)]
         IN  [applyManualToUi(c1, a.payload.mode, a.payload.manual)
                 EXCEPT !.status = IF wantManual THEN "Tryb reczny wlaczony."
                                   ELSE "Tryb reczny wylaczony.",
                        !.busy = FALSE]

\* the page as its markup and the script's module scope leave it; the
\* storage is the browser's
ManualInit ==
    /\ manLoaded = FALSE
    /\ manBusy = FALSE
    /\ manSwitch = FALSE
    /\ manEnabled \in BOOLEAN
    /\ manFan = 0
    /\ manToggles = [k \in DOMAIN ManualOff \ {"fan_power"} |-> FALSE]
    /\ manStorage = None
    /\ manNet = <<>>
    /\ manStatus = ""
    /\ manEvent = ""

ManualOthers ==
    UNCHANGED <<pollerVars, viewVars, cfgVars, pmVars, mdVars, menuVars>>

\* the data-view values of the .menu-btn buttons the user clicks in the
\* model; "" stands for any value the switch of setupMenu has no case for
MenuViews == {"manual", "emergency", ""}

\* the text the click handler of setupMenu writes to #status-text
menuViewStatus(view) ==
    CASE view = "history" -> "Widok: historia pracy."
      [] view = "manual" -> "Widok: tryb reczny."
      [] view = "ignite" -> "Widok: rozpalanie."
      [] view = "settings" -> "Widok: ustawienia."
      [] view = "emergency" -> "ALARM: STOP AWARYJNY!"
      [] OTHER -> "System gotowy."

\* "DOMContentLoaded": setupMenu() binds the click handlers of the menu
\* buttons and start() runs up to its await
ManualDOMContentLoaded ==
    /\ ~manLoaded
    /\ manLoaded' = TRUE
    /\ SetManual(manSend([Manual EXCEPT !.status = "Laduje"],
                         FreshOp(Manual), "start", "current", <<>>))
    /\ manEvent' = ""
    /\ ManualOthers

\* the page is loaded again: the script starts afresh, the requests of the
\* old document are dropped, the storage stays
ManualReload ==
    /\ manLoaded
    /\ manLoaded' = FALSE
    /\ manBusy' = FALSE
    /\ manSwitch' = FALSE
    /\ manEnabled' \in BOOLEAN
    /\ manFan' = 0
    /\ manToggles' = [k \in DOMAIN manToggles |-> FALSE]
    /\ manNet' = <<>>
    /\ manStatus' = ""
    /\ manEvent' = ""
    /\ UNCHANGED manStorage
    /\ ManualOthers

\* the user flips the mode switch: "change" on modeSwitch
ManualSwitchChange ==
    /\ manLoaded
    /\ Cardinality(DOMAIN manNet) < MaxOps
    /\ SetManual(onModeSwitchChange([Manual EXCEPT !.switch = ~manSwitch]))
    /\ manEvent' = "switch"
    /\ UNCHANGED manLoaded
    /\ ManualOthers

\* a click on the .menu-btn with data-view `view`: the handler bound by
\* setupMenu writes the status line; it is no event of the manual controls
ManualMenuClick(view) ==
    /\ manLoaded
    /\ SetManual([Manual EXCEPT !.status = menuViewStatus(view)])
    /\ manEvent' = ""
    /\ UNCHANGED manLoaded
    /\ ManualOthers

\* the user releases the slider at v: "change" on fanSlider
ManualFanChange(v) ==
    /\ manLoaded
    /\ manEnabled
    /\ Cardinality(DOMAIN manNet) < MaxOps
    /\ SetManual(onFanCommit([Manual EXCEPT !.fan = v]))
    /\ manEvent' = "fan"
    /\ UNCHANGED manLoaded
    /\ ManualOthers

\* the user flips the checkbox k: "change" on it
ManualToggle(k) ==
    /\ manLoaded
    /\ manEnabled
    /\ Cardinality(DOMAIN manNet) < MaxOps
    /\ SetManual(onOutputsChange([Manual EXCEPT !.toggles[k] = ~manToggles[k]],
                                 k))
    /\ manEvent' = "toggle"
    /\ UNCHANGED manLoaded
    /\ ManualOthers

\* request id is answered with a and the function awaiting it goes on, to
\* its next await or to its end
ManualAnswer(id, a) ==
    /\ id \in DOMAIN manNet
    /\ LET r == manNet[id]
           c == [Manual EXCEPT !.net = [i \in DOMAIN manNet \ {id} |-> manNet[i]]]
       IN  /\ a \in (IF r.req = "current" THEN CurrentAnswers ELSE PostAnswers)
           /\ SetManual(
                 IF r.op = "start" THEN startResume(c, a)
                 ELSE IF r.op \in {"fan", "outputs"} THEN outputsResume(c, a)
                 ELSE IF r.req = "mode"
                 THEN (IF a.kind = "ok"
                       THEN manSend(c, id, r.op, "current", <<>>)
                       ELSE modeSwitchFailed(c, r.op = "on"))
                 ELSE modeSwitchResume(c, r.op = "on", a))
    /\ manEvent' = ""
    /\ UNCHANGED manLoaded
    /\ ManualOthers

ManualNext ==
    \/ ManualDOMContentLoaded
    \/ ManualReload
    \/ ManualSwitchChange
    \/ \E view \in MenuViews : ManualMenuClick(view)
    \/ \E v \in UserFans : ManualFanChange(v)
    \/ \E k \in UserToggles : ManualToggle(k)
    \/ \E id \in 1..MaxOps, a \in CurrentAnswers \cup PostAnswers :
          ManualAnswer(id, a)

----------------------------------------------------------------------------
(* temp-setpoint-modal.js: the setpoint modal.  While the modal is hidden   *)
(* its buttons and its overlay receive no click and the Escape listener is  *)
(* removed; while it is shown it covers the opener.                         *)

\* TARGETS.radiators_setpoint: min 10, max 80, step 0.5
Target == [min |-> 1000, max |-> 8000, step |-> 50]

\* what GET /value/mixer/target_temp may answer: a failure, a body that is not
\* JSON, or {value: x}
ReadAnswers ==
    {Failed, NullBody, Ok(Num(4530)), Ok(Num(9500)), Ok(Null), Ok(Str("abc"))}

\* what the PUT of value v may answer
WriteAnswers(v) == {Failed, Ok(Num(v)), Ok(Num(4530)), Ok(Str("abc"))}

\* mutant: the value is kept as it comes
clampToNone(v, min, max) == v

\* clamp = (v, min, max) => Math.max(min, Math.min(max, v))
clampTo(v, min, max) ==
    LET lo == IF v < max THEN v ELSE max
    IN  IF lo > min THEN lo ELSE min

\* roundToStep(v, step): Math.round(v * inv) / inv with inv = 1 / step
roundToStep(v, step) == MathRound(v * (100 \div step), 100) * step

\* The modal's part of the state as one record
Modal == [open |-> mdOpen, active |-> mdActive, current |-> mdCurrent,
          saving |-> mdSaving, saveDisabled |-> mdSaveDisabled,
          text |-> mdText, written |-> mdWritten, net |-> mdNet,
          session |-> mdSession]

SetModal(c) ==
    /\ mdOpen' = c.open
    /\ mdActive' = c.active
    /\ mdCurrent' = c.current
    /\ mdSaving' = c.saving
    /\ mdSaveDisabled' = c.saveDisabled
    /\ mdText' = c.text
    /\ mdWritten' = c.written
    /\ mdNet' = c.net
    /\ mdSession' = c.session

\* setModalValue(v, cfg)
setModalValue(c, v) ==
    LET stepped == roundToStep(clampTo(v, Target.min, Target.max), Target.step)
    IN  [c EXCEPT !.current = Some(stepped),
                  !.text = Some(MathRound(stepped * 2, 100) * 50)]

FreshModalReq(c) ==
    CHOOSE i \in 1..MaxSessions :
        /\ i \notin DOMAIN c.net
        /\ \A j \in 1..MaxSessions : j \notin DOMAIN c.net => i <= j

modalSend(c, kind, v) ==
    [c EXCEPT !.net = (FreshModalReq(c) :>
                         [kind |-> kind, session |-> c.session, value |-> v])
                      @@ @]

\* openModal(key) up to `await cfg.read()`
openModal(c) ==
    modalSend([c EXCEPT !.active = TRUE, !.current = None, !.text = None,
                        !.saveDisabled = TRUE, !.open = TRUE,
                        !.session = @ + 1],
              "read", 0)

\* openModal after the await: a is the outcome of apiGetSingle
openModalResume(c, a) ==
    IF a.kind = "ok" /\ Number(a.payload) # None
    THEN [setModalValue(c, Number(a.payload)[1]) EXCEPT !.saveDisabled = FALSE]
    ELSE [c EXCEPT !.saveDisabled = TRUE]

\* closeModal()
closeModal(c) ==
    [c EXCEPT !.open = FALSE, !.active = FALSE, !.current = None,
              !.saving = FALSE, !.saveDisabled = FALSE]

\* the click handlers of btnMinus (dir = -1) and btnPlus (dir = 1)
modalStep(c, dir) ==
    IF ~c.active \/ c.current = None THEN c
    ELSE setModalValue(c, c.current[1] + dir * Target.step)

\* `if (!activeKey) return; if (isSaving) return;`
modalSaveSkips(c) == ~c.active \/ c.saving

\* the click handler of btnSave up to its await
modalSave(c) ==
    IF modalSaveSkips(c) \/ c.current = None THEN c
    ELSE modalSend([c EXCEPT !.saving = TRUE, !.saveDisabled = TRUE],
                   "write", c.current[1])

\* the click handler of btnSave after the await: a is the outcome of
\* apiSetSingle
modalSaveResume(c, a) ==
    IF a.kind = "ok" /\ Number(a.payload) # None
    THEN LET finalValue == roundToStep(clampTo(Number(a.payload)[1], Target.min,
                                               Target.max), Target.step)
         IN  closeModal([c EXCEPT !.written =
                                     Some(MathRound(finalValue * 2, 100) * 50)])
    ELSE [c EXCEPT !.saving = FALSE, !.saveDisabled = FALSE]

ModalInit ==
    /\ mdOpen = FALSE
    /\ mdActive = FALSE
    /\ mdCurrent = None
    /\ mdSaving = FALSE
    /\ mdSaveDisabled = FALSE
    /\ mdText = None
    /\ mdWritten = None
    /\ mdNet = <<>>
    /\ mdSession = 0
    /\ mdEvent = ""

ModalOthers ==
    UNCHANGED <<pollerVars, viewVars, cfgVars, pmVars, manVars, menuVars>>

\* the values the modal shows for what the backend may return
LoadedValues ==
    {roundToStep(clampTo(Number(a.payload)[1], Target.min, Target.max),
                 Target.step) :
        a \in {b \in ReadAnswers : b.kind = "ok" /\ Number(b.payload) # None}}

\* v is at most MaxDrift steps away from a loaded value
NearLoaded(v) ==
    \E w \in LoadedValues :
        /\ v - w <= MaxDrift * Target.step
        /\ w - v <= MaxDrift * Target.step

\* click on the opener: openModal("radiators_setpoint")
ModalOpen ==
    /\ ~mdOpen
    /\ mdSession < MaxSessions
    /\ Cardinality(DOMAIN mdNet) < MaxSessions
    /\ SetModal(openModal(Modal))
    /\ mdEvent' = "open"
    /\ ModalOthers

\* Escape, or a click on the overlay or on the X: closeModal()
ModalClose ==
    /\ mdOpen
    /\ SetModal(closeModal(Modal))
    /\ mdEvent' = "close"
    /\ ModalOthers

\* click on btnMinus or btnPlus
ModalStep(dir) ==
    /\ mdOpen
    /\ SetModal(modalStep(Modal, dir))
    /\ mdEvent' = IF dir < 0 THEN "minus" ELSE "plus"
    /\ ModalOthers

\* click on btnSave (a disabled button receives no click); the values the
\* model lets the user save are those near a loaded one
ModalSave ==
    /\ mdOpen
    /\ ~mdSaveDisabled
    /\ mdCurrent # None => NearLoaded(mdCurrent[1])
    /\ Cardinality(DOMAIN mdNet) < MaxSessions
    /\ SetModal(modalSave(Modal))
    /\ mdEvent' = "save"
    /\ ModalOthers

\* request id is answered and the function awaiting it runs to its end
ModalAnswer(id) ==
    /\ id \in DOMAIN mdNet
    /\ LET r == mdNet[id]
           c == [Modal EXCEPT !.net = [i \in DOMAIN mdNet \ {id} |-> mdNet[i]]]
       IN  \E a \in (IF r.kind = "read" THEN ReadAnswers
                                         ELSE WriteAnswers(r.value)) :
              SetModal(IF r.kind = "read" THEN openModalResume(c, a)
                                          ELSE modalSaveResume(c, a))
    /\ mdEvent' = ""
    /\ ModalOthers

ModalNext ==
    \/ ModalOpen
    \/ ModalClose
    \/ \E dir \in {-1, 1} : ModalStep(dir)
    \/ ModalSave
    \/ \E id \in 1..MaxSessions : ModalAnswer(id)

----------------------------------------------------------------------------
(* mode-control.js: the mode buttons of the side menu.  A button that is    *)
(* not displayed receives no click.  The handlers have no guard: requests   *)
(* may overlap.                                                             *)

\* the modes the backend reports
MenuModes == {"OFF", "IGNITION", "WORK", "MANUAL"}

\* fetch() itself rejects: no response arrived
Rejected == [kind |-> "rejected", payload |-> <<>>]

\* a response that is not ok whose JSON body carries a `detail` text
Refused(detail) == [kind |-> "refused", payload |-> detail]

\* the `detail` texts of the model
Details == {"Kociol w alarmie"}

\* what GET /state/current and POST /state/mode/{mode} may answer: no
\* response (Rejected), a response that is not ok with a `detail` (Refused)
\* or without one (Failed), an ok response whose body is not JSON (NullBody),
\* or a device state with its mode
MenuAnswers ==
    {Rejected, Failed, NullBody}
    \cup {Refused(d) : d \in Details}
    \cup {Ok(m) : m \in MenuModes}

\* `const showIgnite = mode === "WORK"`
showIgnite(mode) == mode = "WORK"

\* `const showWork = mode !== "WORK"`
showWork(mode) == mode # "WORK"

\* The menu's part of the state as one record
Menu == [pc |-> menuPc, ignite |-> igniteShown, work |-> workShown,
         mode |-> menuMode, net |-> menuNet, status |-> menuStatus]

SetMenu(c) ==
    /\ menuPc' = c.pc
    /\ igniteShown' = c.ignite
    /\ workShown' = c.work
    /\ menuMode' = c.mode
    /\ menuNet' = c.net
    /\ menuStatus' = c.status

FreshMenuReq(c) ==
    CHOOSE i \in 1..MaxMenuReqs :
        /\ i \notin DOMAIN c.net
        /\ \A j \in 1..MaxMenuReqs : j \notin DOMAIN c.net => i <= j

menuSend(c, kind, mode, button) ==
    [c EXCEPT !.net = (FreshMenuReq(c) :>
                         [kind |-> kind, mode |-> mode, button |-> button])
                      @@ @]

\* refreshMenuModeButtons(state) once it has a state
refreshMenuModeButtons(c, mode) ==
    [c EXCEPT !.ignite = showIgnite(mode), !.work = showWork(mode),
              !.mode = Some(mode)]

\* refreshMenuModeButtons() after `await fetchCurrentState()`
refreshResume(c, a) ==
    IF a.kind = "ok" THEN refreshMenuModeButtons(c, a.payload)
    ELSE [c EXCEPT !.status = "Nie moge pobrac aktualnego stanu kotla."]

\* setMode(mode) up to its await
setMode(c, mode, button) ==
    menuSend([c EXCEPT !.status = "Ustawiam tryb"], "mode", mode, button)

\* setMode(mode) after its await, then the click handler of `button`: a
\* response that is not ok shows its `detail` or the default text, a rejected
\* fetch or a rejected res.json() is caught
setModeResume(c, button, a) ==
    IF a.kind = "refused" THEN [c EXCEPT !.status = a.payload]
    ELSE IF a.kind = "fail" THEN [c EXCEPT !.status = "Blad zmiany trybu."]
    ELSE IF a.kind \in {"rejected", "null"}
    THEN [c EXCEPT !.status = "Blad polaczenia z serwerem."]
    ELSE LET c1 == refreshMenuModeButtons(
                      [c EXCEPT !.status = "Aktualny tryb"], a.payload)
         IN  IF button = "stop" THEN [c1 EXCEPT !.pc = "left"] ELSE c1

\* the menu as the markup leaves it: both buttons displayed
MenuInit ==
    /\ menuPc = "boot"
    /\ igniteShown = TRUE
    /\ workShown = TRUE
    /\ menuMode = None
    /\ menuNet = <<>>
    /\ menuStatus = ""

MenuOthers == UNCHANGED <<pollerVars, viewVars, cfgVars, pmVars, manVars, mdVars>>

\* document "DOMContentLoaded": the handlers are bound and
\* refreshMenuModeButtons() runs up to its await
MenuDOMContentLoaded ==
    /\ menuPc = "boot"
    /\ SetMenu(menuSend([Menu EXCEPT !.pc = "ready"], "current", "", ""))
    /\ MenuOthers

\* a click on the ignite, work or stop button
MenuClick(button) ==
    /\ menuPc = "ready"
    /\ Cardinality(DOMAIN menuNet) < MaxMenuReqs
    /\ button = "ignite" => igniteShown
    /\ button = "work" => workShown
    /\ SetMenu(setMode(Menu, CASE button = "ignite" -> "IGNITION"
                                [] button = "work" -> "WORK"
                                [] OTHER -> "OFF", button))
    /\ MenuOthers

\* request id is answered with a and the function awaiting it runs to its
\* end; after the stop handler navigated away nothing of the page runs
MenuAnswer(id, a) ==
    /\ menuPc = "ready"
    /\ id \in DOMAIN menuNet
    /\ LET r == menuNet[id]
           c == [Menu EXCEPT !.net = [i \in DOMAIN menuNet \ {id} |-> menuNet[i]]]
       IN  SetMenu(IF r.kind = "current" THEN refreshResume(c, a)
                   ELSE setModeResume(c, r.button, a))
    /\ MenuOthers

MenuNext ==
    \/ MenuDOMContentLoaded
    \/ \E button \in {"ignite", "work", "stop"} : MenuClick(button)
    \/ \E id \in 1..MaxMenuReqs, a \in MenuAnswers : MenuAnswer(id, a)

\* the pages of Part III as constructed
PagesInit == PanelMainInit /\ ManualInit /\ ModalInit /\ MenuInit

\* the same with the markup of the manual-control page fixed: for the
\* specifications in which that page does not run
PagesIdle == PagesInit /\ ~manEnabled

----------------------------------------------------------------------------
(* Specifications *)

\* the main page: the poller and the diff applier run, the configuration
\* engine stays as constructed
InitMain == PollerInit /\ ConfigInit /\ PagesIdle
SpecPoller == InitMain /\ [][PollerNext]_vars

\* the main page while the backend is failing, with the browser's timers
\* firing: a pending setTimeout callback is eventually run.  Every poll ends
\* in one of the three failures, so no state is queued and no frame is
\* requested; the poller never reads the view-model, so what earlier polls
\* delivered does not change how the loop goes on.
FailedResponses == {r \in Responses : pollFailed(r)}

PollerLiveNext ==
    \/ DOMContentLoaded
    \/ VisibilityHidden
    \/ VisibilityVisible
    \/ \E t \in TimerIds : Tick(t)
    \/ \E id \in ReqIds, r \in FailedResponses : Respond(id, r)
    \/ \E id \in ReqIds : Complete(id)

SpecPollerLive ==
    InitMain /\ [][PollerLiveNext]_vars /\ WF_vars(\E t \in TimerIds : Tick(t))

\* the settings page: the configuration engine runs, the poller stays as
\* constructed
InitSettings == PollerInit /\ ~hidden /\ ConfigInit /\ PagesIdle
SpecConfig == InitSettings /\ [][ConfigNext]_vars

\* the engine as constructed, as one record
Constructed ==
    [pc |-> "boot", modules |-> <<>>, loadIdx |-> 0, loadGot |-> NothingLoading,
     configState |-> <<>>, schemaCache |-> <<>>, panel |-> <<>>,
     activeTab |-> "", activeButtons |-> {}, activePanels |-> {},
     saveBtn |-> FALSE, saveDisabled |-> FALSE,
     putNet |-> <<>>, status |-> [kind |-> "", module |-> ""], pressed |-> 0]

\* the settings page after it loaded the single module N with the value 79.8:
\* the state initConfigUI and loadModuleSchemaAndValues leave.  Only the minus
\* and plus buttons of the field are pressed.
InitNumberField ==
    /\ PollerInit /\ ~hidden
    /\ PagesIdle
    /\ LET c == loadModuleSchemaAndValues(initConfigUI(Constructed, Ok(<<"N">>)),
                                          Some(SchemaN), Some([v |-> Num(7980)]))
       IN  /\ cfgPc = c.pc
           /\ modules = c.modules
           /\ loadIdx = c.loadIdx
           /\ loadGot = c.loadGot
           /\ configState = c.configState
           /\ schemaCache = c.schemaCache
           /\ panel = c.panel
           /\ activeTab = c.activeTab
           /\ activeButtons = c.activeButtons
           /\ activePanels = c.activePanels
           /\ saveBtn = c.saveBtn
           /\ saveDisabled = c.saveDisabled
           /\ putNet = c.putNet
           /\ cfgStatus = c.status
           /\ pressed = c.pressed

NumberFieldNext == \E dir \in {-1, 1} : PressNumber("N", "v", dir)

SpecNumberField == InitNumberField /\ [][NumberFieldNext]_vars

\* the manual-control page
InitManual == PollerInit /\ ~hidden /\ ConfigInit /\ PagesInit
SpecManual == InitManual /\ [][ManualNext]_vars

\* the main page's setpoint modal
InitModal == PollerInit /\ ~hidden /\ ConfigInit /\ PagesIdle
SpecModal == InitModal /\ [][ModalNext]_vars

\* the side menu
InitMenu == PollerInit /\ ~hidden /\ ConfigInit /\ PagesIdle
SpecMenu == InitMenu /\ [][MenuNext]_vars

\* the page of panel-main.js: only its interval poller runs
InitPanelMain == PollerInit /\ ~hidden /\ ConfigInit /\ PagesIdle
SpecPanelMain == InitPanelMain /\ [][PanelMainNext]_vars

----------------------------------------------------------------------------
(* Claims about the poller and the diff applier (SpecPoller) *)

\* C1: at most one GET /state/current is outstanding at every moment, and a
\* task that finds a request outstanding issues no request (a request being
\* issued is a new AbortController being stored).
C1_AtMostOneInFlight ==
    /\ [](Cardinality(DOMAIN net) <= 1)
    /\ [][net # <<>> => controller' = controller]_vars

\* a loop has skipped its fetch: it holds a timer while a request is outstanding
C1_Witness == net # <<>> /\ timers # {} /\ inFlight

\* C2 (as claimed): once the page was hidden with a poll in flight, and until
\* it is visible again, no tick timer is pending and no request is outstanding.
C2_HiddenPausesPolling == hidInFlight => (timers = {} /\ net = <<>>)

\* C3: the task that ends a failed poll (network error, non-2xx, unparsable
\* body) leaves queued, prev and the pending frame alone and calls no field
\* setter; when the poll ran to its end (it was not aborted by a visibility
\* or load event) the status line shows the failure message.
C3_FailedPollNotApplied ==
    [][\A id \in DOMAIN net :
          (/\ \/ net[id].kind \in {"http", "neterr"}
              \/ (net[id].kind = "ok" /\ ~net[id].parses)
           /\ id \notin DOMAIN net')
          => /\ queued' = queued
             /\ prev' = prev
             /\ raf' = raf
             /\ frames' = frames
             /\ lastWrites' = {}
             /\ (hidden' = hidden /\ loaded' = loaded
                    => status' = "Blad komunikacji z serwerem")]_vars

\* a poll failed after a state had been rendered
C3_Witness ==
    /\ status = "Blad komunikacji z serwerem"
    /\ lastApplied # None
    /\ prev.mode # None

\* C4: a flush that applies the state the previous flush applied calls no
\* renderer setter.
C4_Idempotent == reapplied => lastWrites = {}

\* the same state was flushed twice in a row
C4_Witness == reapplied /\ lastApplied = Some(StateB) /\ frames = 0

\* C5: setters are called only by the animation-frame callback, at most one
\* frame callback is pending, and a state that arrives while one is pending
\* replaces the queued state without requesting another frame.
C5_FrameBoundary ==
    /\ [](frames <= 1)
    /\ [][/\ lastWrites' # {} => frames' < frames
          /\ (frames = 1 /\ queued' # queued /\ queued' # None) => frames' = 1]_vars

\* a second state arrived before the frame of the first
C5_Witness == overwritten /\ frames = 1 /\ queued # None

----------------------------------------------------------------------------
(* Claims about the configuration engine (SpecConfig) *)

\* C6 (as claimed): when a save succeeds, the module's Draft is exactly the
\* mapping the server returned.
C6_DraftIsServerMapping ==
    [][\A id \in DOMAIN putNet :
          (putNet[id].answer.kind = "ok" /\ id \notin DOMAIN putNet')
          => configState'[putNet[id].module] = putNet[id].answer.payload]_vars

\* C6 (amended): when a save succeeds, the module's Draft holds the keys the
\* server returned plus every schema field's key; a key outside the schema has
\* the server's value, a schema field has the server's value as renderField
\* normalises it (missing or null: the default, else min or 0 for a number and
\* the first option for a text; a number rounded to the precision, a
\* non-numeric value 0; a bool coerced), and the panel shows that Draft.  A
\* module without schema gets the server's mapping as it is.
C6_DraftIsNormalisedServerMapping ==
    [][\A id \in DOMAIN putNet :
          (putNet[id].answer.kind = "ok" /\ id \notin DOMAIN putNet')
          => LET m == putNet[id].module
                 saved == putNet[id].answer.payload
                 d == configState'[m]
             IN  IF m \in DOMAIN schemaCache /\ schemaCache[m] # None
                 THEN LET schema == schemaCache[m][1]
                      IN  /\ DOMAIN d = DOMAIN saved \cup Keys(schema)
                          /\ \A k \in DOMAIN saved \ Keys(schema) : d[k] = saved[k]
                          /\ \A k \in Keys(schema) :
                                /\ d[k] = renderedValue(FieldOf(schema, k),
                                                        Lookup(saved, k))
                                /\ panel'[m].text[k] = display(FieldOf(schema, k), d[k])
                          /\ panel'[m].kind = "fields"
                 ELSE d = saved]_vars

\* a save of A succeeded with a server mapping that had an unrounded number,
\* a key outside the schema and a schema key missing
C6_Witness ==
    /\ cfgStatus = [kind |-> "saved", module |-> "A"]
    /\ "A" \in DOMAIN configState
    /\ DOMAIN configState["A"] = {"t", "en", "extra"}
    /\ configState["A"]["t"] = Num(7930)

\* C7: the task that reports a failed save leaves every Draft, the schema
\* cache and the panels as they were, shows the error status and enables the
\* save button.
C7_FailedSaveKeepsDraft ==
    [][\A id \in DOMAIN putNet :
          (putNet[id].answer.kind = "fail" /\ id \notin DOMAIN putNet')
          => /\ configState' = configState
             /\ schemaCache' = schemaCache
             /\ panel' = panel
             /\ cfgStatus'.kind = "saveError"
             /\ saveBtn' /\ ~saveDisabled']_vars

\* a save of a loaded module failed and the button is enabled
C7_Witness ==
    /\ cfgStatus.kind = "saveError"
    /\ ~saveDisabled
    /\ "A" \in DOMAIN configState
    /\ activeTab = "A"
    /\ panel["A"].kind = "fields"

\* C8: the save button is disabled while a PUT is outstanding, at most one PUT
\* is outstanding, and the task that ends the PUT enables the button.
C8_OneSaveInFlight ==
    /\ [](putNet # <<>> => saveDisabled)
    /\ [](Cardinality(DOMAIN putNet) <= 1)
    /\ [][(putNet # <<>> /\ putNet' = <<>>) => ~saveDisabled']_vars

\* a PUT of one module is outstanding while another module's tab is active
C8_Witness ==
    /\ saveDisabled
    /\ \E id \in DOMAIN putNet : putNet[id].module # activeTab

\* C9 (as claimed): whenever a module's panel shows its fields, every number
\* field's Draft value is a number within [min, max] rounded to the precision.
C9_NumbersWithinBounds ==
    \A m \in DOMAIN panel :
        panel[m].kind = "fields" =>
            \A i \in 1..Len(schemaCache[m][1]) :
                LET def == schemaCache[m][1][i]
                    v == configState[m][def.key]
                IN  def.type = "number" =>
                        /\ IsNum(v)
                        /\ v.num % UnitOf(getNumberPrecision(def)) = 0
                        /\ def.min # None => v.num >= def.min[1]
                        /\ def.max # None => v.num <= def.max[1]

\* C10: the task in which a module's panel comes to show a load error leaves
\* the panel, Draft and schema of every other module alone and goes on to the
\* next module of the list (or ends the loop after the last); a panel that
\* shows fields keeps showing fields; when the loop has ended every panel
\* shows fields or its own error.
C10_LoadFailureIsolated ==
    /\ [][\A m \in DOMAIN panel :
             (panel[m].kind # "error" /\ panel'[m].kind = "error")
             => /\ \A o \in DOMAIN panel \ {m} : panel'[o] = panel[o]
                /\ [o \in DOMAIN configState' \ {m} |-> configState'[o]]
                      = [o \in DOMAIN configState \ {m} |-> configState[o]]
                /\ [o \in DOMAIN schemaCache' \ {m} |-> schemaCache'[o]]
                      = [o \in DOMAIN schemaCache \ {m} |-> schemaCache[o]]
                /\ IF loadIdx < Len(modules)
                   THEN cfgPc' = "loading" /\ loadIdx' = loadIdx + 1
                   ELSE cfgPc' = "done"]_vars
    /\ [][\A m \in DOMAIN panel :
             panel[m].kind = "fields" => panel'[m].kind = "fields"]_vars
    /\ [](cfgPc = "done" =>
             \A m \in DOMAIN panel : panel[m].kind \in {"fields", "error"})

\* the first module failed to load, the second loaded and was edited
C10_Witness ==
    /\ cfgPc = "done"
    /\ "B" \in DOMAIN panel
    /\ panel["A"].kind = "error"
    /\ panel["B"].kind = "fields"
    /\ configState["B"]["mode"] = Str("MANUAL")

----------------------------------------------------------------------------
(* Further claims about the poller and the diff applier (SpecPoller) *)

\* C11: the task that aborts an outstanding poll (page hidden, or the
\* stopPolling of a page-visible or load event) removes the request without
\* handing any response to updateUIFromState (queued and the pending frame are
\* as before), writes nothing to the snapshot, calls no renderer setter and
\* leaves the status line as it was; the aborted request is never completed
\* later, because it is no longer outstanding.
C11_AbortedPollIsSilent ==
    [][\A id \in DOMAIN net :
          (id \notin DOMAIN net' /\ (hidden' # hidden \/ loaded' # loaded))
          => /\ queued' = queued
             /\ raf' = raf
             /\ frames' = frames
             /\ prev' = prev
             /\ lastWrites' = {}
             /\ status' = status]_vars

\* a poll was aborted by hiding the page after an earlier poll had succeeded
\* and before that poll's state was flushed
C11_Witness ==
    /\ hidInFlight
    /\ hidden
    /\ net = <<>>
    /\ ~inFlight
    /\ status = "OK"
    /\ queued # None

\* C12 (as claimed): the task that handles "page visible" issues a state
\* request itself (a new AbortController is stored and its request is
\* outstanding when the task ends), whatever the poller was doing.
C12_VisibleFetchesAtOnce ==
    [][(hidden /\ ~hidden')
          => /\ controller' # controller
             /\ controller' \in DOMAIN net'
             /\ net'[controller'] = NoResp]_vars

\* C13: the task that ends a failed poll (not one cut short by a visibility
\* or load event) sets a new tick timer, and from any state where the last
\* poll failed and no request is outstanding on a visible page, a state
\* request is eventually issued unless the page is hidden first.
C13_FailureKeepsLoop ==
    /\ [][\A id \in DOMAIN net :
             (/\ net[id] # NoResp
              /\ (net[id].kind # "ok" \/ ~net[id].parses)
              /\ id \notin DOMAIN net'
              /\ hidden' = hidden /\ loaded' = loaded)
             => /\ timer' \in timers'
                /\ timer' \notin timers
                /\ ~inFlight']_vars
    /\ ((status = "Blad komunikacji z serwerem" /\ net = <<>> /\ ~hidden)
            ~> (net # <<>> \/ hidden))

\* after a failed poll the loop went on: its timer fired and the next request
\* is outstanding
C13_Witness ==
    /\ status = "Blad komunikacji z serwerem"
    /\ ~hidden
    /\ net # <<>>
    /\ timers = {}
    /\ inFlight

\* C14: the task that receives a device state makes it the queued state,
\* whatever was queued before, and the flush applies exactly the queued state:
\* the snapshot and the setter calls are those of applyState on the state
\* received last, and the queue is empty afterwards.  Nothing of a superseded
\* state is read by the flush.
C14_LastStateWins ==
    /\ [][\A id \in DOMAIN net :
             (/\ net[id].kind = "ok" /\ net[id].parses
              /\ id \notin DOMAIN net'
              /\ hidden' = hidden /\ loaded' = loaded)
             => /\ queued' = Some(net[id].data)
                /\ lastWrites' = {}]_vars
    /\ [][(frames' < frames /\ queued # None)
             => /\ prev' = applyState(prev, queued[1]).prev
                /\ lastWrites' = applyState(prev, queued[1]).writes
                /\ lastApplied' = queued
                /\ queued' = None]_vars

\* StateB superseded a queued state and was then flushed
C14_Witness ==
    /\ overwritten
    /\ frames = 0
    /\ queued = None
    /\ lastApplied = Some(StateB)
    /\ lastWrites # {}
    /\ prev.outputs["pump_co"] = TRUE

\* what a bucket holds under a key: <<value>>, or <<>> when it has no such key
Held(bucket, key) == IF key \in DOMAIN bucket THEN <<bucket[key]>> ELSE <<>>

\* the snapshot entry that guards each renderer setter of the poll path, as
\* <<value>>; <<>> while the snapshot has none (mode and power start as null)
SnapshotOf(pv, setter) ==
    CASE setter = "temps.setFurnace" -> Held(pv.temps, "boiler")
      [] setter = "temps.setRadiators" -> Held(pv.temps, "rads")
      [] setter = "temps.setMixer" -> Held(pv.temps, "mixer")
      [] setter = "temps.setAuger" -> Held(pv.temps, "auger")
      [] setter = "temps.setExhaust" -> Held(pv.temps, "exhaust")
      [] setter = "pumps.set.co" -> Held(pv.outputs, "pump_co")
      [] setter = "pumps.set.cwu" -> Held(pv.outputs, "pump_cwu")
      [] setter = "auger.set" -> Held(pv.outputs, "feeder")
      [] setter = "blower.setPower" -> Held(pv.outputs, "fan")
      [] setter = "ui.setMode" -> IF pv.mode = None THEN <<>> ELSE <<pv.mode>>
      [] setter = "power.setPercent" -> IF pv.power = None THEN <<>> ELSE <<pv.power>>

\* C15: whenever no frame callback is pending, every temperature, output,
\* fan, mode and power setter that was ever called was last called with the
\* value the snapshot holds for its field, and a field whose setter was never
\* called has no snapshot value.
C15_SnapshotIsDisplayed ==
    frames = 0 =>
        \A setter \in {"temps.setFurnace", "temps.setRadiators", "temps.setMixer",
                       "temps.setAuger", "temps.setExhaust", "pumps.set.co",
                       "pumps.set.cwu", "auger.set", "blower.setPower",
                       "ui.setMode", "power.setPercent"} :
            SnapshotOf(prev, setter) = Held(displayed, setter)

\* a state and then StateC were flushed: the boiler setter was last called
\* with null by the second flush, the feeder setter keeps the value of the
\* first
C15_Witness ==
    /\ frames = 0
    /\ lastApplied = Some(StateC)
    /\ "temps.setFurnace" \in lastWrites
    /\ "auger.set" \notin lastWrites
    /\ displayed["temps.setFurnace"] = None
    /\ displayed["auger.set"] = FALSE

C17_SameTextNoRedraw ==
    [][(/\ frames' < frames
        /\ queued # None
        /\ lastApplied # None
        /\ formatTemp(round1(queued[1].sensors.boiler_temp))
              = formatTemp(round1(lastApplied[1].sensors.boiler_temp)))
          => /\ "temps.setFurnace" \notin lastWrites'
             /\ (queued[1].outputs.pump_co_on # lastApplied[1].outputs.pump_co_on
                    => "pumps.set.co" \in lastWrites')]_vars

----------------------------------------------------------------------------
(* Further claims about the configuration engine *)

\* C18: for the field with min 10, max 80, step 0.5 whose Draft starts at
\* 79.8, after any presses of plus and minus the Draft value is a number from
\* 10 to 80 with one decimal place, the panel shows that number with one
\* decimal place and the field's unit after it, and each press yields the
\* old value plus (plus button) or minus (minus button) 0.5, clamped to
\* [10, 80] and then rounded to one decimal place.
C18_PressesStayWithinBounds ==
    /\ [](/\ IsNum(configState["N"]["v"])
          /\ configState["N"]["v"].num >= 1000
          /\ configState["N"]["v"].num <= 8000
          /\ configState["N"]["v"].num % 10 = 0
          /\ panel["N"].text["v"] = [fixed |-> configState["N"]["v"].num,
                                     digits |-> 1, unit |-> Some("C")])
    /\ [][LET moved == configState["N"]["v"].num + pressed' * 50
              clamped == IF moved < 1000 THEN 1000
                         ELSE IF moved > 8000 THEN 8000 ELSE moved
          IN  /\ pressed' \in {-1, 1}
              /\ configState'["N"]["v"] = Num(MathRound(clamped, 10) * 10)]_vars

\* the maximum was hit: the plus button took 79.8 to 80.0, the minus button
\* then took it to 79.5
C18_Witness ==
    /\ configState["N"]["v"] = Num(7950)
    /\ panel["N"].text["v"] = [fixed |-> 7950, digits |-> 1,
                                unit |-> Some("C")]
    /\ pressed = -1

\* C19: a press of the next (previous) button of the enumerated text field
\* "mode" of module B takes the Draft value to the option after (before) the
\* current one, counting a value that is not an option as the first option
\* and wrapping around at both ends; after the press the Draft value is an
\* option and the panel shows it.
C19_OptionsCycle ==
    [][(pressed' # 0 /\ activeTab = "B")
          => LET options == <<"OFF", "IGNITION", "WORK", "MANUAL">>
                 current == configState["B"]["mode"]
                 idx == IF \E i \in 1..4 : Str(options[i]) = current
                        THEN CHOOSE i \in 1..4 : Str(options[i]) = current
                        ELSE 1
                 next == IF pressed' = 1
                         THEN (IF idx = 4 THEN 1 ELSE idx + 1)
                         ELSE (IF idx = 1 THEN 4 ELSE idx - 1)
             IN  /\ configState'["B"]["mode"] = Str(options[next])
                 /\ \E i \in 1..4 : configState'["B"]["mode"] = Str(options[i])
                 /\ panel'["B"].text["mode"] = [text |-> Str(options[next])]]_vars

\* previous was pressed on the first option, or on a loaded value that is
\* not an option: the Draft wrapped to the last option
C19_Witness ==
    /\ pressed = -1
    /\ activeTab = "B"
    /\ "B" \in DOMAIN configState
    /\ configState["B"]["mode"] = Str("MANUAL")
    /\ panel["B"].text["mode"] = [text |-> Str("MANUAL")]

\* C20 (as claimed): the task that handles a press of the save button issues
\* one PUT, addressed to the active module, whose body holds every key of
\* that module's Draft with its value (an empty mapping when the module has
\* no Draft).
C20_SaveSubmitsWholeDraft ==
    [][(~saveDisabled /\ saveDisabled')
          => /\ Cardinality(DOMAIN putNet' \ DOMAIN putNet) = 1
             /\ \A id \in DOMAIN putNet' \ DOMAIN putNet :
                   /\ putNet'[id].module = activeTab
                   /\ putNet'[id].body =
                         (IF activeTab \in DOMAIN configState
                          THEN configState[activeTab] ELSE <<>>)]_vars

\* C20 (amended): the task that handles a press of the save button issues one
\* PUT, addressed to the active module, whose body holds every key of that
\* module's Draft whose value is not undefined, with its value, edited or
\* not, and no other key; a key whose Draft value is undefined is left out by
\* JSON.stringify, and a module without Draft gets an empty mapping.  The
\* Drafts are not changed by the press.
C20_SaveSubmitsDefinedDraft ==
    [][(~saveDisabled /\ saveDisabled')
          => /\ Cardinality(DOMAIN putNet' \ DOMAIN putNet) = 1
             /\ configState' = configState
             /\ \A id \in DOMAIN putNet' \ DOMAIN putNet :
                   /\ putNet'[id].module = activeTab
                   /\ IF activeTab \in DOMAIN configState
                      THEN LET d == configState[activeTab]
                               body == putNet'[id].body
                           IN  /\ DOMAIN body = {k \in DOMAIN d : d[k] # Undefined}
                               /\ \A k \in DOMAIN body : body[k] = d[k]
                      ELSE putNet'[id].body = <<>>]_vars

\* module B was loaded without a value for "note", "mode" was edited and the
\* save was pressed while A's Draft exists too: the PUT for B carries the
\* edited "mode" and no "note"
C20_Witness ==
    /\ "A" \in DOMAIN configState
    /\ "B" \in DOMAIN configState
    /\ activeTab = "B"
    /\ "note" \in DOMAIN configState["B"]
    /\ configState["B"]["note"] = Undefined
    /\ \E id \in DOMAIN putNet :
          /\ putNet[id].module = "B"
          /\ putNet[id].answer = NoAnswer
          /\ putNet[id].body = [mode |-> Str("IGNITION")]

\* C21: once a non-empty module list has been received exactly one tab
\* button and exactly one panel have the class "active", they belong to the
\* same module, and it is the module the save handler finds; the task that
\* receives the list activates its first module, a tab activation leaves
\* exactly the chosen module active, and without a module list (none yet, or
\* an empty one) nothing is active.
C21_ExactlyOneActive ==
    /\ [](IF modules # <<>>
          THEN /\ Cardinality(activeButtons) = 1
               /\ activePanels = activeButtons
               /\ activeButtons = {activeTab}
               /\ activeTab \in DOMAIN panel
          ELSE activeButtons = {} /\ activePanels = {} /\ activeTab = "")
    /\ [][(modules = <<>> /\ modules' # <<>>) => activeTab' = modules'[1]]_vars
    /\ [][activeTab' # activeTab =>
             \/ activeTab = ""
             \/ (activeButtons' = {activeTab'} /\ activePanels' = {activeTab'})]_vars

\* the second module was activated while the first was the active one
C21_Witness ==
    /\ modules = <<"A", "B">>
    /\ activeButtons = {"B"}
    /\ activePanels = {"B"}
    /\ activeTab = "B"

\* C22: a task that changes which module is active (once one is active) is a
\* tab activation and changes nothing else: no request goes out or settles,
\* every Draft, schema and panel content is as before, the load loop and the
\* save button are where they were.  So no task that settles a load or a save
\* changes the active module.
C22_ActivationOnlySwitches ==
    /\ [][(activeTab # "" /\ activeTab' # activeTab)
             => /\ putNet' = putNet
                /\ configState' = configState
                /\ schemaCache' = schemaCache
                /\ panel' = panel
                /\ cfgPc' = cfgPc
                /\ loadIdx' = loadIdx
                /\ loadGot' = loadGot
                /\ modules' = modules
                /\ saveDisabled' = saveDisabled
                /\ cfgStatus' = cfgStatus]_vars
    /\ [][(activeTab # "" /\ (putNet' # putNet \/ loadGot' # loadGot
                                \/ cfgPc' # cfgPc))
             => (activeTab' = activeTab /\ activeButtons' = activeButtons
                 /\ activePanels' = activePanels)]_vars

\* tab B was activated while A's save was in flight and B was still loading;
\* A's Draft and the PUT are untouched
C22_Witness ==
    /\ activeTab = "B"
    /\ cfgPc = "loading"
    /\ "A" \in DOMAIN configState
    /\ \E id \in DOMAIN putNet : putNet[id].module = "A"

\* C23 (as claimed): every key of the Draft of a module whose schema is known
\* is the key of a field of that schema.
C23_DraftKeysInSchema ==
    \A m \in DOMAIN configState :
        (m \in DOMAIN schemaCache /\ schemaCache[m] # None)
            => DOMAIN configState[m] \subseteq Keys(schemaCache[m][1])

\* C24 (as claimed): while the schema and values of a module are being
\* loaded, or before its load has started, no PUT for that module is
\* outstanding.
C24_NoSaveDuringLoad ==
    \A id \in DOMAIN putNet :
        cfgPc = "loading" =>
            \A i \in loadIdx..Len(modules) : modules[i] # putNet[id].module

\* C25 (as claimed): the loads of all modules of the list are started
\* together: while the load loop runs, every module of the list has its load
\* in flight or settled, so that none waits for another module's answers.
C25_LoadsConcurrent ==
    cfgPc = "loading" => \A i \in 1..Len(modules) : i <= loadIdx

\* the fields of module B that get the fallback rendering: "note", of an
\* unsupported type, and "tag", a text without options
C26_ReadOnlyKeys == {"note", "tag"}

\* what C26 says apart from the save: whenever B's panel shows fields it
\* shows all three, the read-only fields as the text of their Draft value as
\* it is and "mode", which the schema lists after them, as its widget; and no
\* task other than the settling of a load or of a save changes the Draft
\* value of a read-only field.
C26_RenderedAndUntouched ==
    /\ []("B" \in DOMAIN panel =>
             (panel["B"].kind = "fields" =>
                 /\ DOMAIN panel["B"].text = C26_ReadOnlyKeys \cup {"mode"}
                 /\ C26_ReadOnlyKeys \cup {"mode"} \subseteq DOMAIN configState["B"]
                 /\ \A k \in C26_ReadOnlyKeys :
                       panel["B"].text[k] = [text |-> textOf(configState["B"][k])]
                 /\ panel["B"].text["mode"]
                       = [text |-> toUpperCase(
                                      textOf(configState["B"]["mode"]))]))
    /\ [][\A k \in C26_ReadOnlyKeys :
             (/\ "B" \in DOMAIN configState
              /\ k \in DOMAIN configState["B"]
              /\ putNet' = putNet /\ loadGot' = loadGot /\ cfgPc' = cfgPc)
             => configState'["B"][k] = configState["B"][k]]_vars

\* C26 (as claimed): a field of an unsupported type, or a text field without
\* options, is rendered as read-only text and the fields after it are still
\* rendered; no user interaction changes its Draft value; and every save of
\* the module submits the key with that value.
C26_ReadOnlyValueSubmitted ==
    /\ C26_RenderedAndUntouched
    /\ [][\A id \in DOMAIN putNet' \ DOMAIN putNet :
             \A k \in C26_ReadOnlyKeys :
                (/\ putNet'[id].module = "B"
                 /\ "B" \in DOMAIN configState
                 /\ k \in DOMAIN configState["B"])
                => /\ k \in DOMAIN putNet'[id].body
                   /\ putNet'[id].body[k] = configState["B"][k]]_vars

\* C26 (amended): as claimed, except for the save: a save of the module
\* submits the key with its Draft value when that value is not undefined,
\* and leaves the key out of the body when it is (the field had neither a
\* loaded value nor a default when it was rendered).
C26_UnsupportedTypeIsReadOnly ==
    /\ C26_RenderedAndUntouched
    /\ [][\A id \in DOMAIN putNet' \ DOMAIN putNet :
             \A k \in C26_ReadOnlyKeys :
                (/\ putNet'[id].module = "B"
                 /\ "B" \in DOMAIN configState
                 /\ k \in DOMAIN configState["B"])
                => IF configState["B"][k] # Undefined
                   THEN /\ k \in DOMAIN putNet'[id].body
                        /\ putNet'[id].body[k] = configState["B"][k]
                   ELSE k \notin DOMAIN putNet'[id].body]_vars

\* B was saved once and the server returned a null note and no tag; "mode"
\* was then edited and the second save submitted the null note and left the
\* tag, which is undefined, out of the body
C26_Witness ==
    /\ "B" \in DOMAIN panel
    /\ panel["B"].kind = "fields"
    /\ panel["B"].text["note"] = [text |-> Str("")]
    /\ "B" \in DOMAIN configState
    /\ configState["B"]["tag"] = Undefined
    /\ \E id \in DOMAIN putNet :
          /\ putNet[id].module = "B"
          /\ putNet[id].answer = NoAnswer
          /\ putNet[id].body = [note |-> Null, mode |-> Str("IGNITION")]

----------------------------------------------------------------------------
(* Further claims about the poller (SpecPoller) *)

\* C27 (as claimed): at most one polling loop is live: the pending tick
\* timers and the outstanding requests (each belongs to one loop, which awaits
\* it) number at most one in every state, and the task that stops polling
\* leaves no tick timer pending.
C27_SingleLoop ==
    /\ [](LiveLoops(Poller) <= 1)
    /\ [][(~hidden /\ hidden') => timers' = {}]_vars

\* C28: while an outstanding request stays outstanding (it is neither
\* completed nor aborted), the in-flight guard stays held and no request is
\* issued: it remains the only request, and it is the one `controller`
\* aborts.  A request is outstanding only with the guard held.
C28_HungRequestHoldsGuard ==
    /\ [](net # <<>> => inFlight)
    /\ [][\A id \in DOMAIN net :
             id \in DOMAIN net'
             => /\ inFlight /\ inFlight'
                /\ controller = id /\ controller' = id
                /\ DOMAIN net' = {id}]_vars

\* a request is unanswered and the guard is held while the tick timer of a
\* second loop is pending on the visible page: the tick that fires next runs
\* fetchState with the guard held
C28_Witness ==
    /\ loaded /\ ~hidden
    /\ inFlight
    /\ timers = {timer}
    /\ controller \in DOMAIN net
    /\ net[controller] = NoResp
    /\ ENABLED Tick(timer)

----------------------------------------------------------------------------
(* Further claims about saving (SpecConfig) *)

\* C29: when a save request that succeeded settles, its response is applied
\* to the module the save was submitted for, whichever tab is active by then:
\* that module's Draft becomes the returned values (as its re-rendered panel
\* writes them back) and its panel is rendered from them; the Draft and the
\* panel of every other module, the active one included, are unchanged, and
\* the active tab stays.
C29_SaveAppliesToSubmittedModule ==
    [][\A id \in DOMAIN putNet :
          (id \notin DOMAIN putNet' /\ putNet[id].answer.kind = "ok")
          => LET m == putNet[id].module
                 saved == putNet[id].answer.payload
             IN  /\ activeTab' = activeTab
                 /\ activeButtons' = activeButtons
                 /\ activePanels' = activePanels
                 /\ DOMAIN configState' = DOMAIN configState \cup {m}
                 /\ \A n \in DOMAIN configState \ {m} :
                        configState'[n] = configState[n]
                 /\ DOMAIN panel' = DOMAIN panel
                 /\ \A n \in DOMAIN panel \ {m} : panel'[n] = panel[n]
                 /\ IF m \in DOMAIN schemaCache /\ schemaCache[m] # None
                    THEN LET r == renderModulePanel(saved, schemaCache[m][1],
                                                    saved)
                         IN  /\ configState'[m] = r.draft
                             /\ panel'[m] = [kind |-> "fields",
                                             text |-> r.text]
                    ELSE /\ configState'[m] = saved
                         /\ m \in DOMAIN panel => panel'[m] = panel[m]
                 /\ cfgStatus' = [kind |-> "saved", module |-> m]]_vars

\* the save of module A has been applied (its Draft holds the values the
\* server returned, 79.34 shown and kept as 79.3) while the tab of module B is
\* the active one and B's Draft holds an edit that was not saved
C29_Witness ==
    /\ cfgStatus = [kind |-> "saved", module |-> "A"]
    /\ activeTab = "B"
    /\ putNet = <<>>
    /\ {"A", "B"} \subseteq DOMAIN configState
    /\ {"t", "extra"} \subseteq DOMAIN configState["A"]
    /\ configState["A"]["t"] = Num(7930)
    /\ configState["A"]["extra"] = Num(100)
    /\ panel["A"].kind = "fields"
    /\ "mode" \in DOMAIN configState["B"]
    /\ configState["B"]["mode"] = Str("MANUAL")

\* C30 (as claimed): between the submission of a save and its completion the
\* Draft of the module being saved is not changed by the widgets: a step
\* that is neither a step of the load nor the start or the end of a save
\* leaves the Draft of every module with an outstanding save as it was, so
\* the Draft the response replaces is the one that was submitted.
C30_NoEditDuringSave ==
    [][\A id \in DOMAIN putNet :
          (/\ putNet' = putNet
           /\ cfgPc' = cfgPc
           /\ loadGot' = loadGot
           /\ putNet[id].module \in DOMAIN configState)
          => /\ putNet[id].module \in DOMAIN configState'
             /\ configState'[putNet[id].module]
                    = configState[putNet[id].module]]_vars

\* C31 (as claimed): every PUT that is outstanding and not yet answered is
\* for a module whose schema and values have been loaded (its panel shows its
\* fields and it has a Draft), and its body is not the empty mapping.
C31_SaveOnlyLoadedModule ==
    \A id \in DOMAIN putNet :
        putNet[id].answer = NoAnswer
        => LET m == putNet[id].module
           IN  /\ m \in DOMAIN configState
               /\ m \in DOMAIN panel
               /\ panel[m].kind = "fields"
               /\ putNet[id].body # <<>>

----------------------------------------------------------------------------
(* Further claims about the status line (SpecPoller) *)

\* C32 (as claimed): at a settle point (no state queued, no animation frame
\* pending), if the device state applied last has its alarm active, the
\* status line shows that state's alarm text, unless a later poll failed and
\* its error is shown; in particular it does not show the text of a
\* successful poll.
C32_AlarmStaysOnStatusLine ==
    (/\ frames = 0
     /\ queued = None
     /\ lastApplied # None
     /\ lastApplied[1].alarm_active)
    => status \in {alarmTextOf(lastApplied[1])[1],
                   "Blad komunikacji z serwerem"}

----------------------------------------------------------------------------
(* Claims about the interval poller of panel-main.js (SpecPanelMain) *)

\* C33 (as claimed): responses are applied in the order their requests were
\* issued: the issue number of the request whose response is applied never
\* goes down.
C33_AppliedInIssueOrder == [][pmApplied' >= pmApplied]_vars

----------------------------------------------------------------------------
(* Claims about the manual-control page (SpecManual) *)

\* C34 (as claimed): no payload onOutputsChange sends to /manual/outputs has
\* mixer_open_on and mixer_close_on both true.
C34_MixerNeverBothWays ==
    \A id \in DOMAIN manNet :
        manNet[id].op = "outputs"
        => ~(manNet[id].body.mixer_open_on /\ manNet[id].body.mixer_close_on)

\* the operations of the user in progress: each awaits one request
UserOps == {id \in DOMAIN manNet : manNet[id].op # "start"}

\* C35: at most one operation triggered by the user (mode switch, fan commit,
\* outputs change) is in progress at a time, and busy is true exactly while
\* one is; a user event that arrives while busy is true issues no request and
\* leaves the operation in progress as it is; when the operation ends, with
\* success or with failure, busy is false.
C35_OneUserOperation ==
    /\ [](Cardinality(UserOps) <= 1)
    /\ [](manBusy <=> UserOps # {})
    /\ [][(manBusy /\ manEvent' # "") => (manNet' = manNet /\ manBusy')]_vars
    /\ [][\A id \in UserOps : id \notin DOMAIN manNet' => ~manBusy']_vars

\* an outputs change is in progress and the user has flipped the mixer-open
\* checkbox meanwhile: the checkbox is checked, the payload that is
\* outstanding was built before and no second request went out
C35_Witness ==
    /\ manBusy
    /\ manEvent = "toggle"
    /\ Cardinality(DOMAIN manNet) = 1
    /\ \E id \in DOMAIN manNet :
          /\ manNet[id].op = "outputs"
          /\ manNet[id].body.feeder_on
          /\ ~manNet[id].body.mixer_open_on
    /\ manToggles.mixer_open_on

\* C36: the stored last-non-manual mode is never MANUAL, and the request that
\* switches manual mode off never asks for the mode MANUAL.
C36_ReturnModeNeverManual ==
    /\ manStorage # Some("MANUAL")
    /\ \A id \in DOMAIN manNet :
          (manNet[id].op = "off" /\ manNet[id].req = "mode")
          => manNet[id].body # "MANUAL"

\* a page load found the mode WORK and remembered it; manual mode was
\* switched on since, and the switch has now been turned off: the request
\* that is outstanding asks for WORK
C36_Witness ==
    /\ manStorage = Some("WORK")
    /\ ~manSwitch
    /\ manBusy
    /\ \E id \in DOMAIN manNet :
          /\ manNet[id].op = "off"
          /\ manNet[id].req = "mode"
          /\ manNet[id].body = "WORK"

----------------------------------------------------------------------------
(* Claims about the setpoint modal (SpecModal) *)

\* the outstanding single-value PUT requests
ModalWrites == {id \in DOMAIN mdNet : mdNet[id].kind = "write"}

\* C37 (as claimed): at most one single-value PUT is outstanding at any time,
\* and when the completion of a save closes the modal, the modal session that
\* is open is the one that submitted the save.
C37_OneSaveOneSession ==
    /\ [](Cardinality(ModalWrites) <= 1)
    /\ [][\A id \in ModalWrites :
             (id \notin DOMAIN mdNet' /\ mdOpen /\ ~mdOpen')
             => mdNet[id].session = mdSession]_vars

\* C38: whenever the edited value is not null it lies within [min, max] of
\* the target and is a multiple of its step; while it is null a click on
\* minus, plus or save changes nothing of the modal and sends nothing.
C38_ValueInRangeOrNull ==
    /\ [](mdCurrent # None
            => /\ Target.min <= mdCurrent[1]
               /\ mdCurrent[1] <= Target.max
               /\ mdCurrent[1] % Target.step = 0)
    /\ [][(mdCurrent = None /\ mdEvent' \in {"minus", "plus", "save"})
            => UNCHANGED <<mdOpen, mdActive, mdCurrent, mdSaving,
                           mdSaveDisabled, mdText, mdWritten, mdNet>>]_vars

\* the backend returned 45.3 for the setpoint, the modal showed 45.5, and a
\* series of presses of plus and minus took the value to 60.0
C38_Witness ==
    /\ mdOpen
    /\ mdEvent = "plus"
    /\ mdCurrent = Some(6000)
    /\ mdText = Some(6000)

----------------------------------------------------------------------------
(* Claims about the menu (SpecMenu) *)

\* C39 (as claimed): once refreshMenuModeButtons has applied a mode, the
\* ignite button is displayed exactly when that mode is WORK and the work
\* button exactly when it is OFF or IGNITION; in any other mode both are
\* hidden.
C39_MenuButtonsFollowRule ==
    menuMode # None
    => /\ igniteShown <=> menuMode[1] = "WORK"
       /\ workShown <=> menuMode[1] \in {"OFF", "IGNITION"}

====
